---- MODULE Spec2Model ----
(***************************************************************************)
(* A model of the interactive configuration layer of auto_moos.py: the     *)
(* Field / Profile data model, the Logger (MessageLog) and the CursesApp   *)
(* terminal session with the process exit paths of main; and of the device *)
(* selection of auto_moos.py and auto_arch.py.                             *)
(*                                                                         *)
(* Python values are records tagged with their type.  Text is a sequence   *)
(* of characters, each character a one-element token ("a", "7", "-", or a  *)
(* code point name such as "U+00BD").  Log message bodies are sequences of *)
(* text pieces.                                                            *)
(***************************************************************************)
EXTENDS Integers, Sequences, FiniteSets, TLC

VARIABLES
    heap,       \* the value held by each of the class-level Field objects
    log,        \* Logger._log, the queue of Message objects
    level,      \* Logger._level, the display threshold
    logFile,    \* Logger._log_file: "none", "open" or "closed"
    file,       \* what has been written to the log file
    stdout,     \* what print() has written, each entry with the session state
    surface,    \* what the curses writer callback has been given
    pushed,     \* history: every Message ever put, in order
    popped,     \* history: every Message ever taken from the queue, in order
    last,       \* the last operation performed, its inputs and its outcome
    calls,      \* number of operations performed so far (bounded in the guards)
    pc,         \* where the process is in main / interactive_conf / exit
    app,        \* the CursesApp object: exists, good, clean
    term,       \* the terminal: "cooked" or "curses" (between initscr and endwin)
    restores,   \* history: how many times the terminal restore sequence ran
    handlers,   \* atexit: the registered callbacks, in registration order
    status,     \* the status the process is exiting with ("" while running)
    ui          \* the interaction mode CursesApp is in: select or input, and its locals

loggerVars == <<log, level, logFile, file, stdout, surface, pushed, popped>>
procVars   == <<pc, app, term, restores, handlers, status>>
vars == <<heap, loggerVars, last, calls, procVars, ui>>

\* No CursesApp.select or CursesApp.input call is running.
NoInteraction == [mode |-> "none"]

\* --------------------------------------------------------------------------
\* Bounds of the model
\* --------------------------------------------------------------------------

\* Field.set calls explored in one behaviour of SpecField.
MaxSets == 2
\* Entries of a persisted profile mapping.
MaxEntries == 2
\* Messages put on the Logger's queue in one behaviour of SpecLog.
MaxPush == 2
\* Sub-interactions of the profile editor in one behaviour of Spec.
MaxEdits == 2

\* --------------------------------------------------------------------------
\* Characters and the str predicates the validators use
\* --------------------------------------------------------------------------

AsciiLower == {"a", "c", "d", "e", "h", "i", "l", "m", "n", "o", "r", "s", "t",
               "u", "v", "w"}
AsciiUpper == {"A", "D", "F", "M", "N", "O", "S", "T"}
AsciiDigit == {"0", "1", "2", "3", "4", "5", "6", "7", "8", "9"}
\* "-", "_", "/", " ", "." and ";" are ASCII punctuation; "TAB" is the control
\* character U+0009; "U+00BD" is VULGAR FRACTION ONE HALF (Numeric_Type=Numeric,
\* not a digit); "U+00E9" is LATIN SMALL LETTER E WITH ACUTE.
AsciiPunct == {"-", "_", "/", " ", ".", ";"}
AsciiChars == AsciiLower \cup AsciiUpper \cup AsciiDigit \cup AsciiPunct \cup {"TAB"}
Chars      == AsciiChars \cup {"U+00BD", "U+00E9"}

CharIsDecimal(c)   == c \in AsciiDigit
CharIsNumeric(c)   == c \in AsciiDigit \cup {"U+00BD"}
CharIsAlpha(c)     == c \in AsciiLower \cup AsciiUpper \cup {"U+00E9"}
CharIsLower(c)     == c \in AsciiLower \cup {"U+00E9"}
CharIsUpper(c)     == c \in AsciiUpper
CharIsPrintable(c) == c # "TAB"
CharIsAscii(c)     == c \in AsciiChars

\* str.isnumeric(): non-empty and every character has a Unicode numeric value.
isnumeric(s) == Len(s) > 0 /\ \A i \in 1..Len(s) : CharIsNumeric(s[i])
\* str.isprintable(): every character printable (true of the empty string).
isprintable(s) == \A i \in 1..Len(s) : CharIsPrintable(s[i])
\* str.isascii(): every character ASCII (true of the empty string).
isascii(s) == \A i \in 1..Len(s) : CharIsAscii(s[i])
\* str.islower(): at least one cased character and no uppercase character.
islower(s) == /\ \E i \in 1..Len(s) : CharIsLower(s[i])
              /\ \A i \in 1..Len(s) : ~CharIsUpper(s[i])
\* str.isalnum(): non-empty, every character alphabetic, decimal, digit or numeric.
isalnum(s) == /\ Len(s) > 0
              /\ \A i \in 1..Len(s) : CharIsAlpha(s[i]) \/ CharIsNumeric(s[i])
\* str.replace(c, ""): every occurrence of the character removed.
remove_char(s, c) == SelectSeq(s, LAMBDA x : x # c)
\* str.startswith(c)
startswith(s, c) == Len(s) > 0 /\ s[1] = c

\* --------------------------------------------------------------------------
\* Python values and str()
\* --------------------------------------------------------------------------

PyStr(s)          == [t |-> "str", s |-> s]
PyInt(neg, digits) == [t |-> "int", neg |-> neg, digits |-> digits]
PyBool(b)         == [t |-> "bool", b |-> b]
PyNone            == [t |-> "none"]

DigitChar == <<"0", "1", "2", "3", "4", "5", "6", "7", "8", "9">>

\* str(value): the text itself, the decimal numeral of an int (with its sign),
\* "True" / "False", "None".
Str(v) ==
    CASE v.t = "str"  -> v.s
      [] v.t = "int"  -> (IF v.neg THEN <<"-">> ELSE <<>>)
                         \o [i \in 1..Len(v.digits) |-> DigitChar[v.digits[i] + 1]]
      [] v.t = "bool" -> IF v.b THEN <<"T", "r", "u", "e">>
                                ELSE <<"F", "a", "l", "s", "e">>
      [] v.t = "none" -> <<"N", "o", "n", "e">>

\* --------------------------------------------------------------------------
\* Level and Message
\* --------------------------------------------------------------------------

LevelNormal  == 1
LevelSuccess == 2
LevelError   == 3
LevelWarning == 4
LevelInfo    == 5
LevelVerbose == 6
Levels == LevelNormal..LevelVerbose

\* A Message before it is queued: its raw text and its level.
Message(raw, lvl) == [raw |-> raw, level |-> lvl]

\* The Message each of Logger.normal / success / error / warning / info /
\* verbose hands to _put.
NormalMessage(msg)  == Message(msg, LevelNormal)
SuccessMessage(msg) == Message(msg, LevelSuccess)
ErrorMessage(msg)   == Message(<<"  [Error] ">> \o msg \o <<".">>, LevelError)
WarningMessage(msg) == Message(<<"[Warning] ">> \o msg \o <<".">>, LevelWarning)
InfoMessage(msg)    == Message(<<"   [Info] ">> \o msg \o <<".">>, LevelInfo)
VerboseMessage(msg) == Message(<<"[Verbose] ">> \o msg \o <<".">>, LevelVerbose)

\* Logger._put for a sequence of messages: each becomes a new Message object at
\* the tail of the queue.  The id is the object's identity (its rank among all
\* the messages ever put).
Stamp(msgs, base) ==
    [i \in 1..Len(msgs) |-> [raw |-> msgs[i].raw, level |-> msgs[i].level,
                             id |-> base + i]]

\* --------------------------------------------------------------------------
\* Logger: the queue, the log file and the two flushes, as operators on the
\* Logger's state L = [log, level, logFile, file, stdout, surface, popped,
\* raised]; raised names the exception that ended the call ("" for none).
\* --------------------------------------------------------------------------

NoMessage == [raw |-> <<>>, level |-> 0, id |-> 0]

\* Logger._get_next(): None on an empty queue; else the head, written to the
\* log file when there is one.  Writing to a closed file raises ValueError
\* after the message has left the queue.
get_next(L) ==
    IF L.log = <<>>
    THEN [L |-> L, msg |-> NoMessage]
    ELSE LET m  == Head(L.log)
             L1 == [L EXCEPT !.log = Tail(@), !.popped = Append(@, m)]
         IN
         CASE L.logFile = "none" -> [L |-> L1, msg |-> m]
           [] L.logFile = "open" ->
                [L |-> [L1 EXCEPT !.file = Append(@, [line |-> m.raw \o <<"LF">>,
                                                        id |-> m.id])],
                 msg |-> m]
           [] L.logFile = "closed" ->
                [L |-> [L1 EXCEPT !.raised = "ValueError"], msg |-> NoMessage]

\* Logger._as_ansi(msg, level)
as_ansi(raw, lvl) ==
    CASE lvl = LevelSuccess -> <<"ESC[1;32m">> \o raw \o <<"ESC[0m">>
      [] lvl = LevelError   -> <<"ESC[1;31m">> \o raw \o <<"ESC[0m">>
      [] lvl = LevelWarning -> <<"ESC[1;33m">> \o raw \o <<"ESC[0m">>
      [] lvl = LevelInfo    -> <<"ESC[1;34m">> \o raw \o <<"ESC[0m">>
      [] OTHER              -> raw

\* Logger.show_all_as_ansi(); active tells whether the curses session holds
\* the terminal while print() writes.
RECURSIVE show_all_as_ansi(_, _)
show_all_as_ansi(L, active) ==
    IF L.log = <<>> THEN L
    ELSE LET g == get_next(L) IN
         IF g.L.raised # "" THEN g.L
         ELSE IF g.msg = NoMessage THEN g.L
         ELSE IF g.msg.level > L.level THEN g.L
         ELSE show_all_as_ansi(
                  [g.L EXCEPT !.stdout =
                      Append(@, [text |-> as_ansi(g.msg.raw, g.msg.level),
                                 id |-> g.msg.id, active |-> active])],
                  active)

\* A flush to the window that passes over a message above the threshold and
\* goes on with the next one.
RECURSIVE show_all_as_curses_skipping(_, _)
show_all_as_curses_skipping(L, room) ==
    IF L.log = <<>> THEN L
    ELSE LET g == get_next(L) IN
         IF g.L.raised # "" THEN g.L
         ELSE IF g.msg = NoMessage THEN g.L
         ELSE IF g.msg.level > L.level THEN show_all_as_curses_skipping(g.L, room)
         ELSE IF room = 0 THEN [g.L EXCEPT !.raised = "curses.error"]
         ELSE show_all_as_curses_skipping(
                  [g.L EXCEPT !.surface =
                      Append(@, [text |-> g.msg.raw \o <<"LF">>,
                                 color |-> g.msg.level, id |-> g.msg.id])],
                  room - 1)

\* Logger.show_all_as_curses(color_setter, writer); room is the number of
\* writer calls the window still has room for: the next one raises curses.error.
RECURSIVE show_all_as_curses(_, _)
show_all_as_curses(L, room) ==
    IF L.log = <<>> THEN L
    ELSE LET g == get_next(L) IN
         IF g.L.raised # "" THEN g.L
         ELSE IF g.msg = NoMessage THEN g.L
         ELSE IF g.msg.level > L.level THEN g.L
         ELSE IF room = 0 THEN [g.L EXCEPT !.raised = "curses.error"]
         ELSE show_all_as_curses(
                  [g.L EXCEPT !.surface =
                      Append(@, [text |-> g.msg.raw \o <<"LF">>,
                                 color |-> g.msg.level, id |-> g.msg.id])],
                  room - 1)

\* Logger.cleanup(): the flush to plain output, then the log file closed.
cleanup(L, active) ==
    LET L1 == show_all_as_ansi(L, active) IN
    IF L1.raised # "" THEN L1
    ELSE IF L1.logFile # "none" THEN [L1 EXCEPT !.logFile = "closed"]
    ELSE L1

\* --------------------------------------------------------------------------
\* Field validators: the verdict and the messages logged
\* --------------------------------------------------------------------------

Accept      == [ok |-> TRUE, msgs |-> <<>>]
\* A validator that returns False without logging.
RejectSilently(msg) == [ok |-> FALSE, msgs |-> <<>>]
Reject(msg) == [ok |-> FALSE, msgs |-> <<ErrorMessage(msg)>>]

HostnameMaxLen == 64
NameMaxLen     == 32

default_validator(value) == Accept

numeric_validator(value) ==
    IF ~isnumeric(value)
    THEN Reject(<<"The given value is not numeric: ">> \o value)
    ELSE Accept

boot_label_validator(value) ==
    IF value = <<>>
    THEN Reject(<<"Boot labels must contain at least one character">>)
    ELSE IF ~(isprintable(value) /\ isascii(value))
    THEN Reject(<<"Boot labels cannot contain non-printable or non-ascii characters">>)
    ELSE Accept

hostname_validator(value) ==
    IF value = <<>>
    THEN Reject(<<"Hostnames must contain at least one character">>)
    ELSE IF Len(value) > HostnameMaxLen
    THEN Reject(<<"Hostnames cannot be longer than 64 characters">>)
    ELSE IF ~(islower(remove_char(value, "-")) /\ isalnum(remove_char(value, "-")))
    THEN Reject(<<"Hostnames may only contain lowercase letters, numbers, and hyphens">>)
    ELSE Accept

name_validator(value) ==
    IF value = <<>>
    THEN Reject(<<"Names must contain at least one character">>)
    ELSE IF isnumeric(value)
    THEN Reject(<<"Names cannot be entirely numeric">>)
    ELSE IF startswith(value, "-")
    THEN Reject(<<"Names cannot start with a hyphen">>)
    ELSE IF Len(value) > NameMaxLen
    THEN Reject(<<"Names cannot be longer than 32 characters">>)
    ELSE IF ~isalnum(remove_char(remove_char(value, "-"), "_"))
    THEN Reject(<<"Names may only contain letters, numbers, underscores, and hyphens">>)
    ELSE Accept

password_validator(value) ==
    IF value = <<>>
    THEN Reject(<<"Passwords must contain at least one character">>)
    ELSE IF ~(isprintable(value) /\ isascii(value))
    THEN Reject(<<"Passwords cannot contain non-printable or non-ascii characters">>)
    ELSE Accept

\* --------------------------------------------------------------------------
\* Profile: the eleven class-level Field objects
\* --------------------------------------------------------------------------

\* fields(Profile), in declaration order.
FieldOrder == <<"network_install", "min_device_bytes", "device", "boot_label",
                "time_zone", "hostname", "root_password", "username",
                "user_password", "sudo_group", "restart">>
FieldNames == {FieldOrder[i] : i \in 1..Len(FieldOrder)}

\* The default value each Field object is constructed with.
Defaults ==
    [network_install  |-> PyBool(FALSE),
     min_device_bytes |-> PyInt(FALSE, <<1, 0, 0, 0, 0, 0, 0, 0, 0, 0, 0>>),
     device           |-> PyNone,
     boot_label       |-> PyStr(<<"M", "O", "O", "S">>),
     time_zone        |-> PyStr(<<"A", "m", "e", "r", "i", "c", "a", "/",
                                  "D", "e", "n", "v", "e", "r">>),
     hostname         |-> PyStr(<<"m", "o", "o", "s">>),
     root_password    |-> PyStr(<<"r", "o", "o", "t">>),
     username         |-> PyStr(<<"m", "a", "i", "n">>),
     user_password    |-> PyStr(<<"m", "a", "i", "n">>),
     sudo_group       |-> PyStr(<<"w", "h", "e", "e", "l">>),
     restart          |-> PyBool(TRUE)]

\* The validator each Field object is constructed with, applied to a text.
Validate(f, value) ==
    CASE f = "min_device_bytes"               -> numeric_validator(value)
      [] f = "boot_label"                     -> boot_label_validator(value)
      [] f = "hostname"                       -> hostname_validator(value)
      [] f \in {"root_password", "user_password"} -> password_validator(value)
      [] f \in {"username", "sudo_group"}     -> name_validator(value)
      [] OTHER                                -> default_validator(value)

\* Profile(): every attribute of a new instance refers to the class-level
\* Field object of that name (the dataclass default is the object itself).
NewProfile == [f \in FieldNames |-> f]

\* Field.get() of attribute f of profile p, in heap h.
Get(h, p, f) == h[p[f]]

\* Field.set(value) on Field object f in heap h: the heap afterwards, the
\* boolean returned and the messages the validator logged.
Field_set(h, f, value) ==
    LET r == Validate(f, Str(value)) IN
    IF r.ok THEN [heap |-> [h EXCEPT ![f] = value], ok |-> TRUE, msgs |-> r.msgs]
            ELSE [heap |-> h, ok |-> FALSE, msgs |-> r.msgs]

\* Field.get_str(): "" for None, else str(value).
get_str(h, p, f) ==
    IF Get(h, p, f) = PyNone THEN <<>> ELSE Str(Get(h, p, f))

\* to_dict exporting the display text of each field (get_str()) in place of
\* its value.
to_dict_as_text(h, p) ==
    [i \in 1..Len(FieldOrder) |->
        [key |-> FieldOrder[i], value |-> PyStr(get_str(h, p, FieldOrder[i]))]]

\* Profile.to_dict(): name -> get(), in field order (an insertion-ordered dict
\* is a sequence of key / value pairs with distinct keys).
to_dict(h, p) ==
    [i \in 1..Len(FieldOrder) |->
        [key |-> FieldOrder[i], value |-> Get(h, p, FieldOrder[i])]]

\* Attributes of a Profile instance that are not fields (methods and the
\* attributes every object has); hasattr() is true of them too.
ProfileOtherAttrs == {"to_dict", "__class__", "__init__", "__eq__", "__repr__"}
hasattr(key) == key \in FieldNames \cup ProfileOtherAttrs

\* The loop of dict_to_profile from entry i on.  st is the heap, the messages
\* logged so far and the exception raised ("" for none).
RECURSIVE dict_to_profile_loop(_, _, _)
dict_to_profile_loop(st, d, i) ==
    IF i > Len(d) \/ st.raised # "" THEN st
    ELSE LET key   == d[i].key
             value == d[i].value
         IN
         IF hasattr(key)
         THEN IF key \notin FieldNames
              \* getattr gives a method or a class: it has no attribute "set"
              THEN [st EXCEPT !.raised = "AttributeError"]
              ELSE LET r == Field_set(st.heap, NewProfile[key], value) IN
                   IF r.ok
                   THEN dict_to_profile_loop(
                            [heap |-> r.heap, msgs |-> st.msgs \o r.msgs,
                             raised |-> ""], d, i + 1)
                   ELSE IF value.t # "str"
                   \* str + value raises for a value that is not a str
                   THEN [heap |-> r.heap, msgs |-> st.msgs \o r.msgs,
                         raised |-> "TypeError"]
                   ELSE dict_to_profile_loop(
                            [heap |-> r.heap,
                             msgs |-> st.msgs \o r.msgs \o
                                 <<WarningMessage(
                                     <<"The given value is invalid for the cooresponding field:",
                                       " field: ", key, " value: ">> \o value.s)>>,
                             raised |-> ""], d, i + 1)
         ELSE dict_to_profile_loop(
                  [heap |-> st.heap,
                   msgs |-> st.msgs \o
                       <<WarningMessage(<<"Unrecognized field in profile: ", key>>)>>,
                   raised |-> ""], d, i + 1)

\* dict_to_profile(profile_dict) run on heap h: the heap afterwards, the
\* messages logged, the exception raised ("" when it returns) and the Profile
\* returned.
dict_to_profile(h, d) ==
    LET r == dict_to_profile_loop([heap |-> h, msgs |-> <<>>, raised |-> ""], d, 1)
    IN  [heap |-> r.heap, msgs |-> r.msgs, raised |-> r.raised,
         profile |-> NewProfile]

\* load_profile(path): src is what open / json.load yield, either a failure
\* ("missing": no file, unreadable, not JSON) or a JSON object.
load_profile(h, src) ==
    IF src.kind # "dict"
    THEN [heap |-> h, result |-> "None", raised |-> "OSError",
          msgs |-> <<ErrorMessage(<<"Failed to read the profile from ", "path">>)>>]
    ELSE LET r == dict_to_profile(h, src.d) IN
         IF r.raised # ""
         THEN [heap |-> r.heap, result |-> "None", raised |-> r.raised,
               msgs |-> r.msgs \o
                   <<ErrorMessage(<<"Failed to read the profile from ", "path">>)>>]
         ELSE [heap |-> r.heap, result |-> "Profile", raised |-> "",
               msgs |-> r.msgs]

\* --------------------------------------------------------------------------
\* The initial state: the module has been imported (the Field objects hold
\* their defaults, logger = Logger(Level.verbose) has an empty queue and no
\* log file).
\* --------------------------------------------------------------------------

Init ==
    /\ heap = Defaults
    /\ log = <<>>
    /\ level = LevelVerbose
    /\ logFile = "none"
    /\ file = <<>>
    /\ stdout = <<>>
    /\ surface = <<>>
    /\ pushed = <<>>
    /\ popped = <<>>
    /\ last = [op |-> "init"]
    /\ calls = 0
    /\ pc = "main"
    /\ app = [exists |-> FALSE, good |-> FALSE, clean |-> FALSE,
              windows |-> FALSE]
    /\ term = "cooked"
    /\ restores = 0
    /\ handlers = <<"Logger.cleanup">>
    /\ status = ""
    /\ ui = NoInteraction

\* _put inserting at the head of the queue.
PutAllFront(msgs) ==
    /\ log' = Stamp(msgs, Len(pushed)) \o log
    /\ pushed' = pushed \o Stamp(msgs, Len(pushed))

\* Logger._put of the messages an operation logged.
PutAll(msgs) ==
    /\ log' = log \o Stamp(msgs, Len(pushed))
    /\ pushed' = pushed \o Stamp(msgs, Len(pushed))

\* ==========================================================================
\* SpecField: Field.set and the Profile round trip
\* ==========================================================================

\* The candidates tried on each field: texts as text-input mode and a profile
\* file supply them, and the other JSON value types.
Int7      == PyInt(FALSE, <<7>>)
IntMinus5 == PyInt(TRUE, <<5>>)

Candidates(f) ==
    CASE f = "min_device_bytes" ->
            {PyStr(<<"1", "2">>), PyStr(<<"1", "a">>), PyStr(<<"U+00BD">>),
             PyStr(<<>>), Int7, IntMinus5, PyBool(TRUE), PyNone}
      [] f \in {"boot_label", "root_password", "user_password"} ->
            {PyStr(<<>>), PyStr(<<"A">>), PyStr(<<"a", " ", "d">>),
             PyStr(<<"a", "TAB">>), PyStr(<<"U+00E9">>), Int7}
      [] f = "hostname" ->
            {PyStr(<<>>), PyStr(<<"a", "-">>), PyStr(<<"-">>), PyStr(<<"1", "2">>),
             PyStr(<<"A">>), PyStr(<<"U+00E9">>), PyNone}
      [] f \in {"username", "sudo_group"} ->
            {PyStr(<<>>), PyStr(<<"1", "2">>), PyStr(<<"-", " ">>),
             PyStr(<<"a", "_">>), PyStr(<<"a", " ", "d">>), PyStr(<<"A">>),
             PyStr(<<"U+00BD", "a">>), PyBool(TRUE)}
      [] OTHER ->
            {PyBool(TRUE), PyBool(FALSE), PyNone, PyStr(<<"/", "d", "e", "v">>)}

\* field.set(value) on one of the Field objects.
SetCall ==
    /\ calls < MaxSets
    /\ \E f \in FieldNames : \E value \in Candidates(f) :
         LET r == Field_set(heap, f, value) IN
         /\ heap' = r.heap
         /\ PutAll(r.msgs)
         /\ last' = [op |-> "set", field |-> f, value |-> value, ok |-> r.ok,
                     before |-> heap[f], msgs |-> r.msgs]
    /\ calls' = calls + 1
    /\ UNCHANGED <<level, logFile, file, stdout, surface, popped, procVars>>
    /\ UNCHANGED ui

\* dict_to_profile(p.to_dict()) for a Profile p of this process; and the same
\* mapping given to dict_to_profile in a new process, where every Field object
\* holds its default (post_pacstrap_setup under arch-chroot).
RoundTripCall ==
    /\ last.op # "round_trip"
    /\ LET d     == to_dict(heap, NewProfile)
           r     == dict_to_profile(heap, d)
           fresh == dict_to_profile(Defaults, d)
       IN
       /\ heap' = r.heap
       /\ PutAll(r.msgs)
       /\ last' = [op |-> "round_trip", before |-> heap, dict |-> d,
                   raised |-> r.raised, profile |-> r.profile, msgs |-> r.msgs,
                   fresh |-> fresh]
    /\ UNCHANGED <<level, logFile, file, stdout, surface, popped, calls, procVars>>
    /\ UNCHANGED ui

NextField == SetCall \/ RoundTripCall

SpecField == Init /\ [][NextField]_vars

\* ==========================================================================
\* SpecLoad: a Profile reconstructed from a mapping
\* ==========================================================================

DictKeys   == {"hostname", "min_device_bytes", "device", "to_dict", "bogus"}
DictValues == {PyStr(<<"a", "-">>), PyStr(<<"A">>), PyStr(<<"1", "2">>), Int7,
               PyBool(TRUE), PyNone}
DictPairs  == [key : DictKeys, value : DictValues]
DictsOfLen(n) ==
    {d \in [1..n -> DictPairs] :
        \A i, j \in 1..n : i # j => d[i].key # d[j].key}
Dicts == UNION {DictsOfLen(n) : n \in 0..MaxEntries}
ProfileFiles == {[kind |-> "missing"]} \cup {[kind |-> "dict", d |-> d] : d \in Dicts}

\* main: custom_profile = load_profile(profile_path), right after start.
LoadProfileCall ==
    /\ last.op = "init"
    /\ \E src \in ProfileFiles :
         LET r == load_profile(heap, src) IN
         /\ heap' = r.heap
         /\ PutAll(r.msgs)
         /\ last' = [op |-> "load_profile", src |-> src, before |-> heap,
                     result |-> r.result, raised |-> r.raised, msgs |-> r.msgs]
    /\ calls' = calls + 1
    /\ UNCHANGED <<level, logFile, file, stdout, surface, popped, procVars>>
    /\ UNCHANGED ui

\* post_pacstrap_setup: profile = dict_to_profile(profile_dict), right after start.
DictToProfileCall ==
    /\ last.op = "init"
    /\ \E d \in Dicts :
         LET r == dict_to_profile(heap, d) IN
         /\ heap' = r.heap
         /\ PutAll(r.msgs)
         /\ last' = [op |-> "dict_to_profile", src |-> [kind |-> "dict", d |-> d],
                     before |-> heap,
                     result |-> IF r.raised = "" THEN "Profile" ELSE "raised",
                     raised |-> r.raised, msgs |-> r.msgs]
    /\ calls' = calls + 1
    /\ UNCHANGED <<level, logFile, file, stdout, surface, popped, procVars>>
    /\ UNCHANGED ui

NextLoad == LoadProfileCall \/ DictToProfileCall

SpecLoad == Init /\ [][NextLoad]_vars

\* ==========================================================================
\* Claims on Field.set and on the Profile mapping
\* ==========================================================================

\* A text has a character that is not one of the digits 0-9.
HasNonDigit(s) == \E i \in 1..Len(s) : s[i] \notin AsciiDigit

\* C1: when the field's validator rejects the textual form of the candidate,
\* Field.set returns false and get() returns what it returned before; when it
\* accepts, set returns true and get() returns the candidate; and the numeric
\* field min_device_bytes rejects every candidate with a non-digit character.
C1_SetContract ==
    last.op = "set" =>
        LET accepted == Validate(last.field, Str(last.value)).ok IN
        /\ ~accepted => (~last.ok /\ heap[last.field] = last.before)
        /\ accepted => (last.ok /\ heap[last.field] = last.value)
        /\ (last.field = "min_device_bytes" /\ HasNonDigit(Str(last.value)))
              => (~last.ok /\ heap[last.field] = last.before)

RejectedEntry(e) == e.key \in FieldNames /\ ~Validate(e.key, Str(e.value)).ok

\* The heap a load must produce from heap h: every entry that names a field
\* and passes its validator applied in order, every other entry ignored.
RECURSIVE ExpectedHeap(_, _, _)
ExpectedHeap(h, d, i) ==
    IF i > Len(d) THEN h
    ELSE IF d[i].key \in FieldNames /\ ~RejectedEntry(d[i])
         THEN ExpectedHeap([h EXCEPT ![d[i].key] = d[i].value], d, i + 1)
         ELSE ExpectedHeap(h, d, i + 1)

IsInvalidValueWarning(m, key) ==
    /\ m.level = LevelWarning
    /\ Len(m.raw) >= 4
    /\ m.raw[2] = "The given value is invalid for the cooresponding field:"
    /\ m.raw[4] = key

IsUnrecognizedWarning(m, key) ==
    /\ m.level = LevelWarning
    /\ Len(m.raw) >= 3
    /\ m.raw[2] = "Unrecognized field in profile: "
    /\ m.raw[3] = key

LastIsLoad == last.op \in {"load_profile", "dict_to_profile"} /\ last.src.kind = "dict"

\* C9: in a mapping of field names, every value its field's validator rejects
\* (whatever its type) is reported by a warning and leaves the field as it
\* was, the other entries are applied, and the load yields a Profile.
C9_RejectedValueKept ==
    (/\ LastIsLoad
     /\ \A i \in 1..Len(last.src.d) : last.src.d[i].key \in FieldNames
     /\ \E i \in 1..Len(last.src.d) : RejectedEntry(last.src.d[i]))
    => /\ last.result = "Profile"
       /\ heap = ExpectedHeap(last.before, last.src.d, 1)
       /\ \A i \in 1..Len(last.src.d) :
             RejectedEntry(last.src.d[i]) =>
                 \E j \in 1..Len(last.msgs) :
                     IsInvalidValueWarning(last.msgs[j], last.src.d[i].key)

\* C10: in a mapping none of whose values is rejected, every key that is not
\* a Profile field name is reported by a warning and ignored: the load yields
\* a Profile and the fields are what the other entries make them.
C10_UnknownKeyIgnored ==
    (/\ LastIsLoad
     /\ \A i \in 1..Len(last.src.d) : ~RejectedEntry(last.src.d[i])
     /\ \E i \in 1..Len(last.src.d) : last.src.d[i].key \notin FieldNames)
    => /\ last.result = "Profile"
       /\ heap = ExpectedHeap(last.before, last.src.d, 1)
       /\ \A i \in 1..Len(last.src.d) :
             last.src.d[i].key \notin FieldNames =>
                 \E j \in 1..Len(last.msgs) :
                     IsUnrecognizedWarning(last.msgs[j], last.src.d[i].key)

\* ==========================================================================
\* SpecLog: the Logger driven through its methods
\* ==========================================================================

\* The curses session holds the terminal.
SessionActive == term = "curses"

\* The Logger's state as the operators above take it, and its assignment back.
Lg == [log |-> log, level |-> level, logFile |-> logFile, file |-> file,
       stdout |-> stdout, surface |-> surface, popped |-> popped, raised |-> ""]
SetLogger(L) ==
    /\ log' = L.log
    /\ logFile' = L.logFile
    /\ file' = L.file
    /\ stdout' = L.stdout
    /\ surface' = L.surface
    /\ popped' = L.popped

\* The message texts callers log.
Texts == {<<"A">>}

\* logger.<method>(msg): one Message put at the tail.
Push(m) ==
    /\ Len(pushed) < MaxPush
    /\ PutAll(<<m>>)
    /\ last' = [op |-> "put"]
    /\ UNCHANGED <<heap, level, logFile, file, stdout, surface, popped, calls,
                   procVars>>
    /\ UNCHANGED ui

LogNormal  == \E msg \in Texts : Push(NormalMessage(msg))
LogSuccess == \E msg \in Texts : Push(SuccessMessage(msg))
LogError   == \E msg \in Texts : Push(ErrorMessage(msg))
LogWarning == \E msg \in Texts : Push(WarningMessage(msg))
LogInfo    == \E msg \in Texts : Push(InfoMessage(msg))
LogVerbose == \E msg \in Texts : Push(VerboseMessage(msg))

\* logger.set_log_file(path): open(path, "w") succeeds or fails.  main calls
\* it once, before anything is logged.
SetLogFile ==
    /\ logFile = "none"
    /\ pushed = <<>>
    /\ last.op # "set_log_file"
    /\ \E opened \in BOOLEAN :
         /\ logFile' = IF opened THEN "open" ELSE "none"
         /\ last' = [op |-> "set_log_file", ok |-> opened]
    /\ file' = <<>>
    /\ UNCHANGED <<heap, log, level, stdout, surface, pushed, popped, calls, procVars>>
    /\ UNCHANGED ui

\* logger.set_log_level(level): the threshold is configured before anything
\* is logged.
SetLogLevel ==
    /\ pushed = <<>>
    /\ \E l \in Levels :
         /\ l # level
         /\ level' = l
         /\ last' = [op |-> "set_log_level", level |-> l]
    /\ UNCHANGED <<heap, log, logFile, file, stdout, surface, pushed, popped,
                   calls, procVars>>
    /\ UNCHANGED ui

\* What an operation added at the end of a sequence.
Added(before, after) == SubSeq(after, Len(before) + 1, Len(after))

\* The record of a drain: the queue and the threshold it started from, what it
\* printed, showed and filed, and the exception that ended it.
DrainRecord(name, L) ==
    [op |-> name, before |-> log, level |-> level, fileWas |-> logFile,
     printed |-> Added(stdout, L.stdout), shown |-> Added(surface, L.surface),
     filed |-> Added(file, L.file), taken |-> Added(popped, L.popped),
     raised |-> L.raised]

\* logger._get_next()
GetNextCall ==
    /\ LET g == get_next(Lg) IN
       /\ SetLogger(g.L)
       /\ last' = DrainRecord("_get_next", g.L)
    /\ UNCHANGED <<heap, level, pushed, calls, procVars>>
    /\ UNCHANGED ui

\* logger.show_all_as_ansi()
ShowAllAsAnsiCall ==
    /\ LET L == show_all_as_ansi(Lg, SessionActive) IN
       /\ SetLogger(L)
       /\ last' = DrainRecord("show_all_as_ansi", L)
    /\ UNCHANGED <<heap, level, pushed, calls, procVars>>
    /\ UNCHANGED ui

\* logger.show_all_as_curses(color_setter, writer)
ShowAllAsCursesCall ==
    /\ \E room \in 0..Len(log) :
         LET L == show_all_as_curses(Lg, room) IN
         /\ SetLogger(L)
         /\ last' = DrainRecord("show_all_as_curses", L)
    /\ UNCHANGED <<heap, level, pushed, calls, procVars>>
    /\ UNCHANGED ui

\* logger.cleanup()
LoggerCleanupCall ==
    /\ LET L == cleanup(Lg, SessionActive) IN
       /\ SetLogger(L)
       /\ last' = DrainRecord("cleanup", L)
    /\ UNCHANGED <<heap, level, pushed, calls, procVars>>
    /\ UNCHANGED ui

NextLog ==
    \/ LogNormal \/ LogSuccess \/ LogError \/ LogWarning \/ LogInfo \/ LogVerbose
    \/ SetLogFile \/ SetLogLevel
    \/ GetNextCall \/ ShowAllAsAnsiCall \/ ShowAllAsCursesCall \/ LoggerCleanupCall

SpecLog == Init /\ [][NextLog]_vars

\* ==========================================================================
\* Claims on the Logger
\* ==========================================================================

Ids(q) == [i \in 1..Len(q) |-> q[i].id]

\* The messages of queue q that threshold T lets through, in order.
WithinThreshold(q, T) == SelectSeq(q, LAMBDA m : m.level <= T)

\* C2: the messages come out of the queue in exactly the order they were put,
\* whatever their levels and however puts and drains interleave, none of them
\* twice: what has come out, followed by what is queued, is what was put.
C2_Fifo ==
    /\ popped \o log = pushed
    /\ \A i \in 1..Len(pushed) : pushed[i].id = i

\* C2 witness: two messages, the first of a higher level than the second, have
\* come out of the queue one drain apiece, the second through _get_next.
C2_Witness ==
    /\ Len(popped) = 2
    /\ popped[1].level > popped[2].level
    /\ last.op = "_get_next"
    /\ Len(last.taken) = 1
    /\ last.before = <<popped[2]>>

\* C3: what show_all_as_ansi prints is exactly the messages of the queue that
\* are within the threshold, in order.
C3_PrintsAllWithinThreshold ==
    (last.op = "show_all_as_ansi" /\ last.fileWas # "closed") =>
        /\ Ids(last.printed) = Ids(WithinThreshold(last.before, last.level))
        /\ \A i \in 1..Len(last.printed) :
              \E j \in 1..Len(last.before) :
                  /\ last.before[j].id = last.printed[i].id
                  /\ last.printed[i].text =
                        as_ansi(last.before[j].raw, last.before[j].level)

\* C4: with a log file attached, every message is appended to the file once,
\* when it is popped, whatever the threshold; and after show_all_as_ansi every
\* message that was put is in the file, in order.
C4_EveryMessageFiled ==
    logFile = "open" =>
        /\ Ids(file) = Ids(popped)
        /\ \A i \in 1..Len(file) : file[i].line = popped[i].raw \o <<"LF">>
        /\ last.op = "show_all_as_ansi" => Ids(file) = Ids(pushed)

\* C5: when show_all_as_ansi returns the queue is empty, and so it is once
\* Logger.cleanup has run.
C5_FlushDrainsQueue ==
    (last.op \in {"show_all_as_ansi", "cleanup"} /\ last.raised = "") => log = <<>>

\* C7 (Logger): a Logger.cleanup that follows a Logger.cleanup prints nothing,
\* files nothing, takes nothing from the queue and raises nothing.
C7_LoggerCleanupIdempotent ==
    [][(last.op = "cleanup" /\ last.raised = "" /\ last'.op = "cleanup")
        => /\ stdout' = stdout
           /\ file' = file
           /\ log' = log
           /\ logFile' = logFile
           /\ last'.raised = ""]_vars

\* ==========================================================================
\* Spec: the process, from main to exit
\*
\* pc: "main" (start of main), "configured" (log file open), "loaded"
\* (package list and profile read, automatic device selection done), "select"
\* (top-level select of interactive_conf about to draw a frame), "select_key"
\* (blocked in getkey), "input_key" (CursesApp.input blocked in getkey),
\* "conf_none" (interactive_conf has returned None),
\* "check_device" (interactive_conf has returned a Profile, or was skipped),
\* "install" (main is past its device check),
\* "return" (main has returned its status to show_errors_and_quit), "atexit"
\* (quit() was called, the atexit callbacks run), "exited".
\* ==========================================================================

min_lines == 12
min_cols  == 44
max_border_lines == 3
max_border_cols  == 10

\* A cleanup that restores nothing.
app_cleanup_skipped(a, t, r) == [app |-> a, term |-> t, restores |-> r]

\* CursesApp.cleanup() on app a with the terminal in state t: the restore
\* sequence (keypad off, cursor shown, echo, nocbreak, endwin) runs unless
\* clean is already set.
app_cleanup(a, t, r) ==
    IF a.clean = FALSE
    THEN [app |-> [a EXCEPT !.good = FALSE, !.clean = TRUE],
          term |-> "cooked", restores |-> r + 1]
    ELSE [app |-> [a EXCEPT !.good = FALSE], term |-> t, restores |-> r]

\* The border window always leaves the full margin, whatever the terminal.
CursesApp_init_unclamped(LINES, COLS) ==
    IF LINES < min_lines \/ COLS < min_cols
    THEN [good |-> FALSE, cleanup |-> TRUE, windows |-> FALSE,
          msgs |-> <<ErrorMessage(<<"Min dim: ", "12", "x", "44">>)>>]
    ELSE LET lines == LINES - (max_border_lines * 2)
             cols  == COLS - (max_border_cols * 2)
             line_origin == (LINES - lines) \div 2
             col_origin  == (COLS - cols) \div 2
         IN [good |-> TRUE, cleanup |-> FALSE, windows |-> TRUE, msgs |-> <<>>,
             border |-> [lines |-> lines, cols |-> cols,
                         y |-> line_origin, x |-> col_origin],
             win    |-> [lines |-> lines - 2, cols |-> cols - 4,
                         y |-> line_origin + 1, x |-> col_origin + 2]]

\* CursesApp.__init__, lines 561-606, on a terminal of LINES x COLS.  Below
\* the minimum the constructor cleans up, logs one error and returns with
\* good false and no window made.  Otherwise it sizes the border window
\* (lines x cols at line_origin, col_origin), makes the content window inside
\* it and sets good.
CursesApp_init(LINES, COLS) ==
    IF LINES < min_lines \/ COLS < min_cols
    THEN [good |-> FALSE, cleanup |-> TRUE, windows |-> FALSE,
          msgs |-> <<ErrorMessage(<<"Min dim: ", "12", "x", "44">>)>>]
    ELSE LET lines == IF LINES > (max_border_lines * 2) + min_lines
                      THEN LINES - (max_border_lines * 2)
                      ELSE min_lines
             cols  == IF COLS > (max_border_cols * 2) + min_cols
                      THEN COLS - (max_border_cols * 2)
                      ELSE min_cols
             line_origin == (LINES - lines) \div 2
             col_origin  == (COLS - cols) \div 2
         IN [good |-> TRUE, cleanup |-> FALSE, windows |-> TRUE, msgs |-> <<>>,
             border |-> [lines |-> lines, cols |-> cols,
                         y |-> line_origin, x |-> col_origin],
             win    |-> [lines |-> lines - 2, cols |-> cols - 4,
                         y |-> line_origin + 1, x |-> col_origin + 2]]

\* The terminal sizes tried (curses.LINES, curses.COLS).
TermLines == {11, 12, 24}
TermCols  == {43, 44, 80}

\* The text fields edited through CursesApp.input and the buffers confirmed.
InputFields == {"min_device_bytes", "hostname"}
Responses(f) == {v \in Candidates(f) : v.t = "str"}

DevicePath == PyStr(<<"/", "d", "e", "v">>)

\* main, lines 913-975: the signal handlers are installed, the arguments
\* parsed, the default Profile made and the log file opened.
MainSetup ==
    /\ pc = "main"
    /\ \E opened \in BOOLEAN :
         IF opened
         THEN /\ logFile' = "open"
              /\ pc' = "configured"
              /\ UNCHANGED <<log, pushed, status>>
         ELSE /\ PutAll(<<ErrorMessage(<<"Failed to open the log file at ", "path">>)>>)
              /\ pc' = "return"
              /\ status' = "False"
              /\ UNCHANGED logFile
    /\ last' = [op |-> "main_setup"]
    /\ UNCHANGED <<heap, level, file, stdout, surface, popped, calls, app, term,
                   restores, handlers>>
    /\ UNCHANGED ui

\* main, lines 980-1010: --generate-conf writes the example files and quits,
\* or fails.
MainGenerateConf ==
    /\ pc = "configured"
    /\ \E written \in BOOLEAN :
         IF written
         THEN /\ pc' = "atexit"
              /\ status' = "0"
              /\ UNCHANGED <<log, pushed>>
         ELSE /\ PutAll(<<ErrorMessage(<<"Failed to write an example profile to ", "path">>)>>)
              /\ pc' = "return"
              /\ status' = "False"
    /\ last' = [op |-> "generate_conf"]
    /\ UNCHANGED <<heap, level, logFile, file, stdout, surface, popped, calls, app,
                   term, restores, handlers>>
    /\ UNCHANGED ui

\* main, lines 1013-1024: the profile is loaded and, with no device in it, one
\* is picked automatically (get_device finds one or logs why not).
MainLoad ==
    /\ pc = "configured"
    /\ \E src \in {[kind |-> "missing"], [kind |-> "dict", d |-> <<>>],
                   [kind |-> "dict",
                    d |-> <<[key |-> "hostname", value |-> PyStr(<<"A">>)]>>]} :
       \E found \in BOOLEAN :
         LET r  == load_profile(heap, src)
             dv == IF found THEN DevicePath ELSE PyNone
             s  == Field_set(r.heap, "device", dv)
             m  == IF found THEN <<>>
                   ELSE <<ErrorMessage(<<"Failed to list devices">>)>>
         IN
         /\ heap' = s.heap
         /\ PutAll(r.msgs \o m \o s.msgs)
    /\ pc' = "loaded"
    /\ last' = [op |-> "main_load"]
    /\ UNCHANGED <<level, logFile, file, stdout, surface, popped, calls, app, term,
                   restores, handlers, status>>
    /\ UNCHANGED ui

\* main, line 1027 with --non-interactive: interactive_conf is skipped.
MainNonInteractive ==
    /\ pc = "loaded"
    /\ pc' = "check_device"
    /\ last' = [op |-> "non_interactive"]
    /\ UNCHANGED <<heap, loggerVars, calls, app, term, restores, handlers, status>>
    /\ UNCHANGED ui

\* interactive_conf, lines 806-808: app = CursesApp().  The constructor
\* registers cleanup with atexit, takes the terminal (initscr) and, on a
\* terminal below the minimum, cleans up, logs and leaves good false;
\* interactive_conf then returns None.
CursesAppInit ==
    /\ pc = "loaded"
    /\ \E LINES \in TermLines : \E COLS \in TermCols :
         LET made == CursesApp_init(LINES, COLS)
             a == [exists |-> TRUE, good |-> FALSE, clean |-> FALSE,
                   windows |-> made.windows]
             c == IF made.cleanup THEN app_cleanup(a, "curses", restores)
                  ELSE [app |-> a, term |-> "curses", restores |-> restores]
         IN
         /\ app' = [c.app EXCEPT !.good = made.good]
         /\ term' = c.term
         /\ restores' = c.restores
         /\ PutAll(made.msgs)
         /\ pc' = IF made.good THEN "select" ELSE "conf_none"
         /\ last' = [op |-> "CursesApp", LINES |-> LINES, COLS |-> COLS,
                     msgs |-> made.msgs]
    /\ handlers' = Append(handlers, "CursesApp.cleanup")
    /\ UNCHANGED <<heap, level, logFile, file, stdout, surface, popped, calls,
                   status>>
    /\ UNCHANGED ui

\* main, lines 1028-1033: interactive_conf returned None; main logs the
\* failure and returns False.
MainConfFailed ==
    /\ pc = "conf_none"
    /\ PutAll(<<ErrorMessage(<<"An operation failed during interactive profile configuration">>)>>)
    /\ pc' = "return"
    /\ status' = "False"
    /\ last' = [op |-> "main_conf_failed"]
    /\ UNCHANGED <<heap, level, logFile, file, stdout, surface, popped, calls, app,
                   term, restores, handlers>>
    /\ UNCHANGED ui

\* CursesApp.select, lines 643-672: one frame of the top-level list; the
\* pending messages are drained into the window.  A curses.error is swallowed
\* and the frame is drawn again.
SelectRender ==
    /\ pc = "select"
    /\ \E room \in 0..Len(log) :
         LET L == show_all_as_curses(Lg, room) IN
         /\ SetLogger(L)
         /\ last' = DrainRecord("show_all_as_curses", L)
         /\ pc' = IF L.raised = "curses.error" THEN "select" ELSE "select_key"
    /\ UNCHANGED <<heap, level, pushed, calls, app, term, restores, handlers, status>>
    /\ UNCHANGED ui

\* CursesApp.select, lines 674-692: j / k (or a key that shows the help) and
\* the list is drawn again.
SelectKeyRedraw ==
    /\ pc = "select_key"
    /\ pc' = "select"
    /\ last' = [op |-> "key_redraw"]
    /\ UNCHANGED <<heap, loggerVars, calls, app, term, restores, handlers, status>>
    /\ UNCHANGED ui

\* CursesApp.select returns None on q and interactive_conf returns None at
\* line 833, before the app.cleanup() of line 903.
SelectKeyCancel ==
    /\ pc = "select_key"
    /\ pc' = "conf_none"
    /\ last' = [op |-> "key_cancel"]
    /\ UNCHANGED <<heap, loggerVars, calls, app, term, restores, handlers, status>>
    /\ UNCHANGED ui

\* The confirm key on a text field: interactive_conf calls app.input, which
\* blocks in getkey.
SelectKeyEdit ==
    /\ pc = "select_key"
    /\ calls < MaxEdits
    /\ \E f \in InputFields :
         last' = [op |-> "key_edit", field |-> f]
    /\ pc' = "input_key"
    /\ calls' = calls + 1
    /\ UNCHANGED <<heap, loggerVars, app, term, restores, handlers, status>>
    /\ UNCHANGED ui

\* CursesApp.input, lines 713-715: the confirm key; field.set(response), and
\* interactive_conf goes round its loop to the top-level list.
InputConfirm ==
    /\ pc = "input_key"
    /\ \E response \in Responses(last.field) :
         LET r == Field_set(heap, last.field, response) IN
         /\ heap' = r.heap
         /\ PutAll(r.msgs)
         /\ last' = [op |-> "set", field |-> last.field, value |-> response,
                     ok |-> r.ok, before |-> heap[last.field], msgs |-> r.msgs]
    /\ pc' = "select"
    /\ UNCHANGED <<level, logFile, file, stdout, surface, popped, calls, app, term,
                   restores, handlers, status>>
    /\ UNCHANGED ui

\* What a device selection can come to: CursesApp.get_device returns a path
\* ("found"), or None with its error ("none": lsblk failed, or the selection
\* was cancelled or refused), or is_device_valid's int(dev_size) <
\* min_dev_bytes raises TypeError because min_device_bytes holds a str.
DeviceOutcomes(h) ==
    IF h["min_device_bytes"].t = "str" THEN {"none", "TypeError"}
    ELSE {"none", "found"}

\* The confirm key on the restart entry, lines 885-894: the two-item dialog
\* "Enable restart after installation?" returns None (q), 0 or 1, and unless
\* it is None the field is set to bool(selection_index).
SelectKeyRestart ==
    /\ pc = "select_key"
    /\ calls < MaxEdits
    /\ \E selection_index \in {"None", "0", "1"} :
         LET s == Field_set(heap, "restart", PyBool(selection_index = "1")) IN
         /\ IF selection_index = "None"
            THEN UNCHANGED <<heap, log, pushed>>
            ELSE /\ heap' = s.heap
                 /\ PutAll(s.msgs)
         /\ last' = [op |-> "key_restart", selection_index |-> selection_index]
    /\ pc' = "select"
    /\ calls' = calls + 1
    /\ UNCHANGED <<level, logFile, file, stdout, surface, popped, app, term,
                   restores, handlers, status>>
    /\ UNCHANGED ui

\* The device is set.
may_begin_always(device) == TRUE
\* profile.device.get() is not None
may_begin(device) == device # PyNone

\* The confirm key on the device entry, lines 851-852:
\* profile.device.set(app.get_device(...)).  An uncaught TypeError ends the
\* process (the atexit callbacks run).
SelectKeyDevice ==
    /\ pc = "select_key"
    /\ calls < MaxEdits
    /\ \E outcome \in DeviceOutcomes(heap) :
         /\ IF outcome = "TypeError"
            THEN /\ pc' = "atexit"
                 /\ status' = "TypeError"
                 /\ UNCHANGED <<heap, log, pushed>>
            ELSE LET dv == IF outcome = "found" THEN DevicePath ELSE PyNone
                     s  == Field_set(heap, "device", dv)
                 IN
                 /\ heap' = s.heap
                 /\ PutAll((IF outcome = "found" THEN <<>>
                            ELSE <<ErrorMessage(<<"Failed to select a device">>)>>)
                           \o s.msgs)
                 /\ pc' = "select"
                 /\ UNCHANGED status
         /\ last' = [op |-> "key_device", outcome |-> outcome,
                     before |-> heap["device"]]
    /\ calls' = calls + 1
    /\ UNCHANGED <<level, logFile, file, stdout, surface, popped, app, term,
                   restores, handlers>>
    /\ UNCHANGED ui

\* The confirm key on "Begin Installation", lines 895-908: with a device set
\* the loop ends, app.cleanup() runs and the Profile is returned; without one
\* the device selection runs first and the loop ends only if it set a device.
SelectKeyBegin ==
    /\ pc = "select_key"
    /\ IF may_begin(heap["device"])
       THEN LET c == app_cleanup(app, term, restores) IN
            /\ app' = c.app
            /\ term' = c.term
            /\ restores' = c.restores
            /\ pc' = "check_device"
            /\ last' = [op |-> "key_begin", had_device |-> TRUE, asked |-> FALSE]
            /\ UNCHANGED <<heap, log, pushed, calls, status>>
       ELSE /\ calls < MaxEdits
            /\ calls' = calls + 1
            /\ last' = [op |-> "key_begin", had_device |-> FALSE, asked |-> TRUE]
            /\ \E outcome \in DeviceOutcomes(heap) :
                 IF outcome = "TypeError"
                 THEN /\ pc' = "atexit"
                      /\ status' = "TypeError"
                      /\ UNCHANGED <<heap, log, pushed, app, term, restores>>
                 ELSE LET dv == IF outcome = "found" THEN DevicePath ELSE PyNone
                          s  == Field_set(heap, "device", dv)
                          c  == app_cleanup(app, term, restores)
                      IN
                      /\ heap' = s.heap
                      /\ PutAll((IF outcome = "found" THEN <<>>
                                 ELSE <<ErrorMessage(<<"Failed to select a device">>)>>)
                                \o s.msgs)
                      /\ UNCHANGED status
                      /\ IF may_begin(s.heap["device"])
                         THEN /\ app' = c.app
                              /\ term' = c.term
                              /\ restores' = c.restores
                              /\ pc' = "check_device"
                         ELSE /\ pc' = "select"
                              /\ UNCHANGED <<app, term, restores>>
    /\ UNCHANGED <<level, logFile, file, stdout, surface, popped, handlers>>
    /\ UNCHANGED ui

\* main, lines 1036-1040: without a device main logs the failure and returns
\* False; with one it goes on to the installation.
MainCheckDevice ==
    /\ pc = "check_device"
    /\ IF heap["device"] = PyNone
       THEN /\ PutAll(<<ErrorMessage(<<"Failed to find a suitable device for installation. Manual intervention is required">>)>>)
            /\ pc' = "return"
            /\ status' = "False"
       ELSE /\ pc' = "install"
            /\ UNCHANGED <<log, pushed, status>>
    /\ last' = [op |-> "main_check_device"]
    /\ UNCHANGED <<heap, level, logFile, file, stdout, surface, popped, calls, app,
                   term, restores, handlers>>
    /\ UNCHANGED ui

\* The truth value of the expression profile.<f> on heap h: the expression
\* yields the Field object, not what it holds, and class Field defines
\* neither __bool__ nor __len__, so that every Field object is true.
Field_truth(h, f) == TRUE

\* main, lines 1043-1193: the partitions are unmounted, the device is
\* partitioned and the system installed; a step fails (an error is logged and
\* main returns False) or all complete (the success message, the flush of
\* line 1180, and under `if profile.restart:` the countdown and
\* run("shutdown", "-r", "now")).
MainInstall ==
    /\ pc = "install"
    /\ \E done \in BOOLEAN :
         LET m == IF done
                  THEN <<SuccessMessage(<<"Installation complete!">>)>>
                  ELSE <<ErrorMessage(<<"Failed to format and partition ", "device">>)>>
             queued == [Lg EXCEPT !.log = @ \o Stamp(m, Len(pushed))]
             L == IF done THEN show_all_as_ansi(queued, SessionActive) ELSE queued
         IN
         /\ SetLogger(L)
         /\ pushed' = pushed \o Stamp(m, Len(pushed))
         /\ status' = IF done THEN "True" ELSE "False"
         /\ last' = [op |-> "main_install", device |-> heap["device"],
                     done |-> done,
                     countdown |-> done /\ Field_truth(heap, "restart"),
                     shutdown |-> done /\ Field_truth(heap, "restart")]
    /\ pc' = "return"
    /\ UNCHANGED <<heap, level, calls, app, term, restores, handlers>>
    /\ UNCHANGED ui

\* show_errors_and_quit(status), lines 1196-1198: the flush to plain output,
\* then quit().
ShowErrorsAndQuit ==
    /\ pc = "return"
    /\ LET L == show_all_as_ansi(Lg, SessionActive) IN
       /\ SetLogger(L)
       /\ last' = DrainRecord("show_errors_and_quit", L)
    /\ pc' = "atexit"
    /\ UNCHANGED <<heap, level, pushed, calls, app, term, restores, handlers, status>>
    /\ UNCHANGED ui

\* SIGINT or SIGTERM while main runs: the handler installed at lines 913-914
\* is show_errors_and_quit(status=False).
Signal ==
    /\ pc \in {"configured", "loaded", "select", "select_key", "input_key",
               "conf_none", "check_device", "install", "return"}
    /\ LET L == show_all_as_ansi(Lg, SessionActive) IN
       /\ SetLogger(L)
       /\ last' = [DrainRecord("signal", L) EXCEPT !.op = "signal"]
    /\ pc' = "atexit"
    /\ status' = "signal"
    /\ UNCHANGED <<heap, level, pushed, calls, app, term, restores, handlers>>
    /\ UNCHANGED ui

\* quit(): the atexit callbacks run, last registered first.
AtExitCursesApp ==
    /\ pc = "atexit"
    /\ handlers # <<>>
    /\ handlers[Len(handlers)] = "CursesApp.cleanup"
    /\ LET c == app_cleanup(app, term, restores) IN
       /\ app' = c.app
       /\ term' = c.term
       /\ restores' = c.restores
    /\ handlers' = SubSeq(handlers, 1, Len(handlers) - 1)
    /\ last' = [op |-> "atexit_app"]
    /\ UNCHANGED <<heap, loggerVars, calls, pc, status>>
    /\ UNCHANGED ui

AtExitLogger ==
    /\ pc = "atexit"
    /\ handlers # <<>>
    /\ handlers[Len(handlers)] = "Logger.cleanup"
    /\ LET L == cleanup(Lg, SessionActive) IN
       /\ SetLogger(L)
       /\ last' = DrainRecord("cleanup", L)
    /\ handlers' = SubSeq(handlers, 1, Len(handlers) - 1)
    /\ pc' = IF Len(handlers) = 1 THEN "exited" ELSE "atexit"
    /\ UNCHANGED <<heap, level, pushed, calls, app, term, restores, status>>
    /\ UNCHANGED ui

Next ==
    \/ MainSetup \/ MainGenerateConf \/ MainLoad \/ MainNonInteractive
    \/ CursesAppInit \/ MainConfFailed
    \/ SelectRender \/ SelectKeyRedraw \/ SelectKeyCancel \/ SelectKeyEdit
    \/ InputConfirm \/ SelectKeyDevice \/ SelectKeyRestart \/ SelectKeyBegin
    \/ MainCheckDevice \/ MainInstall \/ ShowErrorsAndQuit \/ Signal
    \/ AtExitCursesApp \/ AtExitLogger

Spec == Init /\ [][Next]_vars

\* ==========================================================================
\* Claims on the exit paths
\* ==========================================================================

\* C6: when SIGINT or SIGTERM arrives, nothing is written to plain output
\* while the curses session still holds the terminal; and the process exits
\* with the terminal restored and the queue flushed.
C6_TeardownBeforeFlush ==
    /\ last.op = "signal" =>
          \A i \in 1..Len(last.printed) : ~last.printed[i].active
    /\ (pc = "exited" /\ status = "signal") => (term = "cooked" /\ log = <<>>)

\* ==========================================================================
\* SpecValidate: the Field validators called on a text
\* ==========================================================================

\* Length of the short texts tried on the validators.
MaxText == 2

\* The static validator methods of Field that judge a text.
ValidatorNames == {"numeric", "boot_label", "hostname", "name", "password"}

RunValidator(v, value) ==
    CASE v = "numeric"    -> numeric_validator(value)
      [] v = "boot_label" -> boot_label_validator(value)
      [] v = "hostname"   -> hostname_validator(value)
      [] v = "name"       -> name_validator(value)
      [] v = "password"   -> password_validator(value)

\* The texts tried: every text of at most MaxText characters over a small
\* alphabet, and texts just below, at and just above the two length limits.
TextAlphabet == {"a", "A", "1", "-", "_", " ", "U+00BD", "U+00E9"}
ShortTexts == UNION {[1..n -> TextAlphabet] : n \in 0..MaxText}
Repeat(c, n) == [i \in 1..n |-> c]
LimitLengths == {NameMaxLen - 1, NameMaxLen, NameMaxLen + 1,
                 HostnameMaxLen - 1, HostnameMaxLen, HostnameMaxLen + 1}
LongTexts ==
    {Repeat(c, n) : c \in {"a", "1", "-"}, n \in LimitLengths}
    \cup {<<"a">> \o Repeat(c, n - 1) : c \in {"1", "-", "A"}, n \in LimitLengths}
ValidatorTexts == ShortTexts \cup LongTexts

\* Field.<name>_validator(value): the verdict, and the error it logs.
ValidateCall ==
    /\ last.op = "init"
    /\ \E v \in ValidatorNames : \E value \in ValidatorTexts :
         LET r == RunValidator(v, value) IN
         /\ PutAll(r.msgs)
         /\ last' = [op |-> "validate", validator |-> v, value |-> value,
                     ok |-> r.ok, msgs |-> r.msgs]
    /\ UNCHANGED <<heap, level, logFile, file, stdout, surface, popped, calls,
                   procVars, ui>>

NextValidate == ValidateCall

SpecValidate == Init /\ [][NextValidate]_vars

\* ==========================================================================
\* Claims on the validators
\* ==========================================================================

\* Every character of text s is in set S.
AllIn(s, S) == \A i \in 1..Len(s) : s[i] \in S

\* The characters a hostname may have: lowercase letters, digits, hyphen.
HostnameChars == AsciiLower \cup AsciiDigit \cup {"-"}

\* C11: the hostname validator accepts exactly the texts of 1 to 64
\* characters whose every character is a lowercase letter, a digit or a
\* hyphen.
C11_HostnameAcceptsExactly ==
    (last.op = "validate" /\ last.validator = "hostname") =>
        (last.ok <=> /\ Len(last.value) \in 1..HostnameMaxLen
                     /\ AllIn(last.value, HostnameChars))

\* The characters a user or group name may have: letters, digits, underscore,
\* hyphen.
NameChars == AsciiLower \cup AsciiUpper \cup {"U+00E9"} \cup AsciiDigit \cup {"_", "-"}

\* C12: the name validator accepts exactly the texts that are non-empty, not
\* purely numeric, do not start with a hyphen, have at most 32 characters and
\* consist of letters, digits, underscores and hyphens.
C12_NameAcceptsExactly ==
    (last.op = "validate" /\ last.validator = "name") =>
        (last.ok <=> /\ last.value # <<>>
                     /\ ~AllIn(last.value, AsciiDigit)
                     /\ last.value[1] # "-"
                     /\ Len(last.value) <= NameMaxLen
                     /\ AllIn(last.value, NameChars))

\* ==========================================================================
\* Claims on what Field.set stores and logs
\* ==========================================================================

\* The number a sequence of digit values denotes.
RECURSIVE NatOfDigits(_)
NatOfDigits(ds) ==
    IF ds = <<>> THEN 0
    ELSE 10 * NatOfDigits(SubSeq(ds, 1, Len(ds) - 1)) + ds[Len(ds)]

\* The number a text of digits 0-9 denotes.
NatOfText(s) ==
    NatOfDigits([i \in 1..Len(s) |-> CHOOSE d \in 0..9 : DigitChar[d + 1] = s[i]])

\* C13: min_device_bytes.get() is an integer in every state, and after a
\* successful set with a candidate made of digits it is the integer the
\* candidate denotes.
C13_NumericFieldHoldsInteger ==
    /\ heap["min_device_bytes"].t = "int"
    /\ (/\ last.op = "set"
        /\ last.field = "min_device_bytes"
        /\ last.ok
        /\ Str(last.value) # <<>>
        /\ AllIn(Str(last.value), AsciiDigit))
       => /\ heap["min_device_bytes"].t = "int"
          /\ ~heap["min_device_bytes"].neg
          /\ NatOfDigits(heap["min_device_bytes"].digits) = NatOfText(Str(last.value))

\* The rules of each field's validator, in the order they are checked: whether
\* the text breaks the rule, and the error that reports it.
Rule(broken, msg) == [broken |-> broken, msg |-> msg]
Rules(f, s) ==
    CASE f = "min_device_bytes" ->
            <<Rule(~isnumeric(s), <<"The given value is not numeric: ">> \o s)>>
      [] f = "boot_label" ->
            <<Rule(s = <<>>, <<"Boot labels must contain at least one character">>),
              Rule(~(isprintable(s) /\ isascii(s)),
                   <<"Boot labels cannot contain non-printable or non-ascii characters">>)>>
      [] f = "hostname" ->
            <<Rule(s = <<>>, <<"Hostnames must contain at least one character">>),
              Rule(Len(s) > HostnameMaxLen,
                   <<"Hostnames cannot be longer than 64 characters">>),
              Rule(~(islower(remove_char(s, "-")) /\ isalnum(remove_char(s, "-"))),
                   <<"Hostnames may only contain lowercase letters, numbers, and hyphens">>)>>
      [] f \in {"root_password", "user_password"} ->
            <<Rule(s = <<>>, <<"Passwords must contain at least one character">>),
              Rule(~(isprintable(s) /\ isascii(s)),
                   <<"Passwords cannot contain non-printable or non-ascii characters">>)>>
      [] f \in {"username", "sudo_group"} ->
            <<Rule(s = <<>>, <<"Names must contain at least one character">>),
              Rule(isnumeric(s), <<"Names cannot be entirely numeric">>),
              Rule(startswith(s, "-"), <<"Names cannot start with a hyphen">>),
              Rule(Len(s) > NameMaxLen, <<"Names cannot be longer than 32 characters">>),
              Rule(~isalnum(remove_char(remove_char(s, "-"), "_")),
                   <<"Names may only contain letters, numbers, underscores, and hyphens">>)>>
      [] OTHER -> <<>>

BrokenRules(f, s) == {i \in 1..Len(Rules(f, s)) : Rules(f, s)[i].broken}

\* The first rule, in order, that text s breaks for field f.
FirstBrokenRule(f, s) ==
    Rules(f, s)[CHOOSE i \in BrokenRules(f, s) : \A j \in BrokenRules(f, s) : i <= j]

\* C14: a Field.set that fails puts exactly one message on the log, the error
\* of the first rule the candidate breaks, and changes no field; a Field.set
\* that succeeds puts none.
C14_OneErrorPerFailedSet ==
    [][last'.op = "set" =>
         IF last'.ok
         THEN pushed' = pushed /\ log' = log
         ELSE /\ Len(pushed') = Len(pushed) + 1
              /\ SubSeq(pushed', 1, Len(pushed)) = pushed
              /\ pushed'[Len(pushed')].level = LevelError
              /\ pushed'[Len(pushed')].raw =
                    ErrorMessage(FirstBrokenRule(last'.field, Str(last'.value)).msg).raw
              /\ log' = Append(log, pushed'[Len(pushed')])
              /\ heap' = heap]_vars

\* C14 witness: after one set that succeeded and one set that failed on a
\* candidate breaking two rules of its validator, one message has been put.
C14_Witness ==
    /\ last.op = "set"
    /\ ~last.ok
    /\ last.field = "username"
    /\ Cardinality(BrokenRules("username", Str(last.value))) = 2
    /\ calls = 2
    /\ Len(pushed) = 1

\* ==========================================================================
\* SpecSelect: CursesApp.select, one step per frame drawn and per key read
\*
\* ui while select runs: n = len(items), rows = the lines the window has for
\* the items and the drained messages, validator = the confirmation predicate
\* the caller passed, start = the cursor_index argument, cursor = the local
\* cursor_index, at = "draw" (top of the loop), "key" (blocked in
\* screen.getkey()), "help" (blocked in the getkey of show_help) or
\* "returned", outcome = "pending", "index" (an index was returned, result)
\* or "None", frame = the parity of the frames attempted so far.
\* ==========================================================================

\* Items of a list, and select calls in one behaviour of SpecSelect.
MaxItems == 3
MaxSelects == 2

\* The window heights tried: one line short of the longest list, and one
\* line more than it needs.
WindowRows == {MaxItems - 1, MaxItems + 1}

\* The confirmation predicates callers pass: Field.default_validator and
\* get_device's interactive_device_validator, whose verdict depends on the
\* device (too small: an error is logged; holding partitions and the format
\* declined in the nested dialog: nothing is logged).
SelectValidators == {"default", "device"}
ValidatorVerdicts(v) ==
    IF v = "default" THEN {Accept}
    ELSE {Accept,
          Reject(<<"The selected device does not meet the minimum requirements for installation">>),
          [ok |-> FALSE, msgs |-> <<>>]}

max(a, b) == IF a >= b THEN a ELSE b
min(a, b) == IF a <= b THEN a ELSE b

\* The cursor left where the key put it.
NoClamp(i, n) == i
\* cursor_index = max(cursor_index, 0); cursor_index = min(cursor_index, len(items) - 1)
Clamp(i, n) == min(max(i, 0), n - 1)

\* select(prompt, items, headings, cursor_index, validator) is called.
SelectCall ==
    /\ ui.mode = "none" \/ (ui.mode = "select" /\ ui.at = "returned")
    /\ calls < MaxSelects
    /\ \E n \in 0..MaxItems : \E rows \in WindowRows :
       \E v \in SelectValidators : \E start \in 0..max(n - 1, 0) :
         LET u == [mode |-> "select", n |-> n, rows |-> rows, validator |-> v,
                   start |-> start, cursor |-> start, at |-> "draw",
                   outcome |-> "pending", result |-> 0, frame |-> 0]
         IN
         IF n <= 0
         THEN /\ PutAll(<<ErrorMessage(<<"Not enough items given to select from">>)>>)
              /\ ui' = [u EXCEPT !.at = "returned", !.outcome = "None"]
         ELSE /\ ui' = u
              /\ UNCHANGED <<log, pushed>>
    /\ calls' = calls + 1
    /\ last' = [op |-> "select_call"]
    /\ UNCHANGED <<heap, level, logFile, file, stdout, surface, popped, procVars>>

\* One pass of the try block up to getkey: the window is cleared, the prompt
\* and the items are written, the pending messages drained into the window.
\* A curses.error (an item or a message written past the last line of the
\* window) is swallowed by the except clause and the loop starts over.
SelectDraw ==
    /\ ui.mode = "select"
    /\ ui.at = "draw"
    /\ IF ui.n > ui.rows
       THEN /\ ui' = [ui EXCEPT !.frame = 1 - @]
            /\ last' = [op |-> "select_draw", raised |-> "curses.error"]
            /\ UNCHANGED <<log, logFile, file, stdout, surface, popped>>
       ELSE LET L == show_all_as_curses(Lg, ui.rows - ui.n) IN
            /\ SetLogger(L)
            /\ last' = DrainRecord("select_draw", L)
            /\ ui' = [ui EXCEPT !.frame = 1 - @,
                                !.at = IF L.raised = "curses.error"
                                       THEN "draw" ELSE "key"]
    /\ UNCHANGED <<heap, level, pushed, calls, procVars>>

\* key j / KEY_DOWN or k / KEY_UP
SelectKeyMove ==
    /\ ui.mode = "select"
    /\ ui.at = "key"
    /\ \E key \in {"j", "KEY_DOWN", "k", "KEY_UP"} :
         LET moved == IF key \in {"j", "KEY_DOWN"} THEN ui.cursor + 1
                                                   ELSE ui.cursor - 1
         IN
         /\ ui' = [ui EXCEPT !.cursor = Clamp(moved, ui.n), !.at = "draw"]
         /\ last' = [op |-> "select_key", key |-> key, cursor |-> ui.cursor]
    /\ UNCHANGED <<heap, loggerVars, calls, procVars>>

\* key q
SelectKeyQuit ==
    /\ ui.mode = "select"
    /\ ui.at = "key"
    /\ ui' = [ui EXCEPT !.at = "returned", !.outcome = "None"]
    /\ last' = [op |-> "select_key", key |-> "q", cursor |-> ui.cursor]
    /\ UNCHANGED <<heap, loggerVars, calls, procVars>>

\* key ; / ENTER: validator(items[cursor_index]) decides between returning
\* cursor_index and returning None.
SelectKeyConfirm ==
    /\ ui.mode = "select"
    /\ ui.at = "key"
    /\ \E key \in {";", "LF"} : \E verdict \in ValidatorVerdicts(ui.validator) :
         /\ PutAll(verdict.msgs)
         /\ ui' = IF verdict.ok
                  THEN [ui EXCEPT !.at = "returned", !.outcome = "index",
                                  !.result = ui.cursor]
                  ELSE [ui EXCEPT !.at = "returned", !.outcome = "None"]
         /\ last' = [op |-> "select_confirm", key |-> key, cursor |-> ui.cursor,
                     valid |-> verdict.ok]
    /\ UNCHANGED <<heap, level, logFile, file, stdout, surface, popped, calls,
                   procVars>>

\* any other key: show_help() draws the key list and blocks in getkey.
SelectKeyOther ==
    /\ ui.mode = "select"
    /\ ui.at = "key"
    /\ \E key \in {"x", "KEY_RESIZE"} :
         last' = [op |-> "select_key", key |-> key, cursor |-> ui.cursor]
    /\ ui' = [ui EXCEPT !.at = "help"]
    /\ UNCHANGED <<heap, loggerVars, calls, procVars>>

\* the key that dismisses the help: continue, the list is drawn again.
SelectHelpKey ==
    /\ ui.mode = "select"
    /\ ui.at = "help"
    /\ ui' = [ui EXCEPT !.at = "draw"]
    /\ last' = [op |-> "help_key", cursor |-> ui.cursor]
    /\ UNCHANGED <<heap, loggerVars, calls, procVars>>

NextSelect ==
    \/ SelectCall \/ SelectDraw
    \/ SelectKeyMove \/ SelectKeyQuit \/ SelectKeyConfirm \/ SelectKeyOther
    \/ SelectHelpKey

SpecSelect == Init /\ [][NextSelect]_vars

\* The loop of select runs on its own between two key reads: a frame that can
\* be attempted is attempted.
SpecSelectFair == Init /\ [][NextSelect]_vars /\ WF_vars(SelectDraw)

\* ==========================================================================
\* Claims on selection mode
\* ==========================================================================

\* C15: on the confirm key the confirmation predicate is asked about the
\* highlighted item; when it holds select returns the highlighted index, and
\* when it does not select goes on waiting for a key, the cursor where it was.
C15_ConfirmAsksPredicate ==
    last.op = "select_confirm" =>
        IF last.valid
        THEN ui.at = "returned" /\ ui.outcome = "index" /\ ui.result = last.cursor
        ELSE ui.at \in {"draw", "key"} /\ ui.outcome = "pending"
             /\ ui.cursor = last.cursor

\* C16: the cursor is always an index of the item list, and so is the index
\* returned on confirm; down moves it one further except at the last index,
\* up one back except at index 0, and nothing else moves it.
C16_CursorStaysInRange ==
    /\ []((ui.mode = "select" /\ ui.n > 0) =>
            /\ ui.cursor \in 0..(ui.n - 1)
            /\ ui.outcome = "index" => ui.result \in 0..(ui.n - 1))
    /\ [][(ui.mode = "select" /\ ui.at # "returned") =>
            ui'.cursor =
                CASE last'.op = "select_key" /\ last'.key \in {"j", "KEY_DOWN"} ->
                        IF ui.cursor = ui.n - 1 THEN ui.cursor ELSE ui.cursor + 1
                  [] last'.op = "select_key" /\ last'.key \in {"k", "KEY_UP"} ->
                        IF ui.cursor = 0 THEN ui.cursor ELSE ui.cursor - 1
                  [] OTHER -> ui.cursor]_vars

\* C16 witness: a list of two items, the cursor starting at 0, and confirm
\* has returned index 1.
C16_Witness ==
    /\ ui.mode = "select"
    /\ ui.n = 2
    /\ ui.start = 0
    /\ last.op = "select_confirm"
    /\ ui.outcome = "index"
    /\ ui.result = 1

\* C17: after a frame that failed with curses.error, select gets to the
\* blocking key read.
C17_DrawFailureReachesKeyRead ==
    (ui.mode = "select" /\ ui.at = "draw"
        /\ last.op = "select_draw" /\ last.raised = "curses.error")
    ~> (ui.mode = "select" /\ ui.at = "key")

\* ==========================================================================
\* SpecInput: CursesApp.input, one step per key read
\*
\* ui while input runs: field = the Field being edited, seed = the text the
\* buffer started from, response = the buffer, keys = the keys read so far,
\* at = "key" (blocked in screen.getkey()) or "returned".
\* ==========================================================================

\* Keys read by one input call before the confirm key.
MaxKeys == 5

\* The fields interactive_conf edits through app.input.
TextFields == {"min_device_bytes", "boot_label", "hostname", "root_password",
               "username", "user_password", "sudo_group"}

\* What getkey returns: a one-character string for a character key ("LF" is
\* ENTER, "TAB" the tab key), the curses name for a function key.
CharKeys    == {"e", ";", "TAB"}
SpecialKeys == {"KEY_BACKSPACE", "KEY_UP"}
InputKeys   == CharKeys \cup SpecialKeys \cup {"LF"}

\* len(key) == 1
IsSingleChar(key) == key \notin SpecialKeys

\* The keys that confirm in selection mode.
IsSelectConfirmKey(key) == key \in {";", "LF"}
\* key == "\n"
IsConfirmKey(key) == key = "LF"

\* The buffer kept whole.
erase_nothing(response) == response
\* response[:-1]
erase_last(response) == SubSeq(response, 1, Len(response) - 1)

\* The buffer after a key that does not confirm.
edit(response, key) ==
    LET appended == IF IsSingleChar(key) THEN response \o <<key>> ELSE response
    IN  IF key = "KEY_BACKSPACE" THEN erase_last(appended) ELSE appended

\* input(field, prompt) is called: response = field.get_str().
InputCall ==
    /\ ui.mode = "none"
    /\ \E f \in TextFields :
         ui' = [mode |-> "input", field |-> f, seed |-> get_str(heap, NewProfile, f),
                response |-> get_str(heap, NewProfile, f), keys |-> <<>>,
                at |-> "key"]
    /\ last' = [op |-> "input_call"]
    /\ UNCHANGED <<heap, loggerVars, calls, procVars>>

\* One key read by input: ENTER applies the buffer with field.set and
\* returns; any other key edits the buffer and the loop draws it again.
InputKey ==
    /\ ui.mode = "input"
    /\ ui.at = "key"
    /\ \E key \in InputKeys :
         IF IsConfirmKey(key)
         THEN LET r == Field_set(heap, ui.field, PyStr(ui.response)) IN
              /\ heap' = r.heap
              /\ PutAll(r.msgs)
              /\ ui' = [ui EXCEPT !.keys = Append(@, key), !.at = "returned"]
              /\ last' = [op |-> "set", field |-> ui.field,
                          value |-> PyStr(ui.response), ok |-> r.ok,
                          before |-> heap[ui.field], msgs |-> r.msgs]
              /\ UNCHANGED calls
         ELSE /\ calls < MaxKeys
              /\ calls' = calls + 1
              /\ ui' = [ui EXCEPT !.keys = Append(@, key),
                                  !.response = edit(ui.response, key)]
              /\ last' = [op |-> "input_key", key |-> key]
              /\ UNCHANGED <<heap, log, pushed>>
    /\ UNCHANGED <<level, logFile, file, stdout, surface, popped, procVars>>

NextInput == InputCall \/ InputKey

SpecInput == Init /\ [][NextInput]_vars

\* ==========================================================================
\* Claims on text-input mode
\* ==========================================================================

PrintableKeys == {k \in CharKeys : CharIsPrintable(k)}

\* The buffer the keys build from a seed: a printable character is appended,
\* the erase key removes the last character, if there is one.
RECURSIVE BufferBuilt(_, _)
BufferBuilt(seed, keys) ==
    IF keys = <<>> THEN seed
    ELSE LET b == BufferBuilt(seed, SubSeq(keys, 1, Len(keys) - 1))
             k == keys[Len(keys)]
         IN  CASE k \in PrintableKeys -> Append(b, k)
               [] k = "KEY_BACKSPACE" ->
                     IF b = <<>> THEN b ELSE SubSeq(b, 1, Len(b) - 1)
               [] OTHER -> b

\* The keys of text-input mode read before the confirm key.
EditKeys == SelectSeq(ui.keys, LAMBDA k : k # "LF")

\* The buffer starts as the field's text, follows the printable and erase keys
\* in order, and is what Field.set is given on confirm.
BufferFollowsKeys ==
    ui.mode = "input" =>
        /\ ui.keys = <<>> =>
              ui.response = get_str(heap, NewProfile, ui.field)
        /\ (\A i \in 1..Len(EditKeys) :
                EditKeys[i] \in PrintableKeys \cup {"KEY_BACKSPACE"}) =>
              /\ ui.response = BufferBuilt(ui.seed, EditKeys)
              /\ ui.at = "returned" =>
                    (last.op = "set" /\ last.value = PyStr(ui.response))

\* The scenario: the username field ("main"), erase, "e", confirm.
ScenarioPlayed ==
    /\ ui.mode = "input"
    /\ ui.field = "username"
    /\ ui.seed = <<"m", "a", "i", "n">>
    /\ ui.keys = <<"KEY_BACKSPACE", "e", "LF">>

\* C18 as stated: the buffer follows the keys, and the scenario passes "mae"
\* to Field.set.
C18_BufferAsStated ==
    /\ BufferFollowsKeys
    /\ ScenarioPlayed => last.value = PyStr(<<"m", "a", "e">>)

\* C18, amended: the buffer follows the keys, and the scenario passes "maie"
\* to Field.set.
C18_BufferFollowsKeys ==
    /\ BufferFollowsKeys
    /\ ScenarioPlayed => last.value = PyStr(<<"m", "a", "i", "e">>)

\* C18 witness: the scenario has been played and Field.set has accepted the
\* buffer it was given.
C18_Witness ==
    /\ ScenarioPlayed
    /\ last.op = "set"
    /\ last.ok

\* C19: text-input mode ends on the confirm key and on no other; the confirm
\* key gives the buffer to Field.set and ends the mode whether the value was
\* accepted (the field holds it) or rejected (the field is unchanged and the
\* error is on the log).
C19_OnlyConfirmEndsInput ==
    [][(ui.mode = "input" /\ ui.at = "key") =>
          LET key == ui'.keys[Len(ui'.keys)] IN
          /\ ui'.mode = "input"
          /\ Len(ui'.keys) = Len(ui.keys) + 1
          /\ IF key = "LF"
             THEN /\ ui'.at = "returned"
                  /\ last'.op = "set"
                  /\ last'.value = PyStr(ui.response)
                  /\ IF last'.ok
                     THEN heap' = [heap EXCEPT ![ui.field] = PyStr(ui.response)]
                          /\ pushed' = pushed
                     ELSE /\ heap' = heap
                          /\ Len(log') = Len(log) + 1
                          /\ log'[Len(log')].level = LevelError
             ELSE /\ ui'.at = "key"
                  /\ heap' = heap]_vars

\* C19 witness: the mode has ended on a confirm whose value was rejected,
\* after the keys that cancel and confirm a selection were typed into the
\* buffer.
C19_Witness ==
    /\ ui.mode = "input"
    /\ ui.at = "returned"
    /\ ui.field = "hostname"
    /\ ui.keys = <<";", "LF">>
    /\ ~last.ok
    /\ heap = Defaults

\* ==========================================================================
\* Claims on the device and the start of the installation
\* ==========================================================================

\* C20: interactive_conf returns a Profile only with the device set; "Begin
\* Installation" with the device unset runs the device selection and ends the
\* loop only if that set a device, going back to the list otherwise; and main
\* gets to the installation only with the device set.
C20_DeviceSetBeforeInstall ==
    /\ (last.op = "key_begin" /\ pc = "check_device") => heap["device"] # PyNone
    /\ (last.op = "key_begin" /\ ~last.had_device) =>
          /\ last.asked
          /\ pc = "select" <=> (heap["device"] = PyNone /\ status = "")
          /\ pc = "check_device" <=> heap["device"] # PyNone
    /\ pc = "install" => heap["device"] # PyNone
    /\ last.op = "main_install" => last.device # PyNone

\* C20 witness: "Begin Installation" was chosen with the device unset, the
\* device selection set one, and interactive_conf has returned the Profile.
C20_Witness ==
    /\ last.op = "key_begin"
    /\ ~last.had_device
    /\ pc = "check_device"
    /\ heap["device"] = DevicePath

\* ==========================================================================
\* SpecDevice: the automatic and the interactive device selection
\*
\* A device is what lsblk reports of it: valid (is_device_valid accepts it)
\* and parts, "none" (lsblk lists the device alone), "some" (it lists
\* partitions) or "unknown" (lsblk failed).  A device list is the sequence
\* list_all_devices returns; a selected device is its index in the list, 0
\* for None.
\* ==========================================================================

\* The longest device list tried.
MaxDevices == 2

Devices == [valid : BOOLEAN, parts : {"none", "some", "unknown"}]

DeviceLists == UNION {[1..n -> Devices] : n \in 0..MaxDevices}

\* Python's truth test of a returned value: None and False are false.
truthy(v) == v # PyNone /\ v # PyBool(FALSE)

\* is_device_valid(dev_path, min_dev_bytes), lines 230-277.
is_device_valid(d) ==
    IF d.valid THEN [value |-> PyBool(TRUE), msgs |-> <<>>]
    ELSE [value |-> PyBool(FALSE),
          msgs |-> <<ErrorMessage(<<"Not enough space on device: ", "path">>)>>]

\* A partition listing that failed counts as no partitions.
device_lacks_partitions_unless_listed(d) ==
    IF d.parts = "some"
    THEN [value |-> PyBool(FALSE),
          msgs |-> <<WarningMessage(<<"Partitions found on device: ", "path">>)>>]
    ELSE [value |-> PyBool(TRUE), msgs |-> <<>>]

\* device_lacks_partitions(dev_path), lines 280-294: None when lsblk fails,
\* False when it lists partitions, True otherwise.
device_lacks_partitions(d) ==
    CASE d.parts = "unknown" ->
           [value |-> PyNone,
            msgs |-> <<ErrorMessage(<<"Failed to use lsblk to list partitions on device: ", "path">>)>>]
      [] d.parts = "some" ->
           [value |-> PyBool(FALSE),
            msgs |-> <<WarningMessage(<<"Partitions found on device: ", "path">>)>>]
      [] OTHER -> [value |-> PyBool(TRUE), msgs |-> <<>>]

\* The for loop of get_device, lines 305-319, from the i-th device on.
RECURSIVE get_device_loop(_, _)
get_device_loop(devices, i) ==
    IF i > Len(devices) THEN [result |-> 0, msgs |-> <<>>]
    ELSE LET v == is_device_valid(devices[i])
             p == device_lacks_partitions(devices[i])
             rest == get_device_loop(devices, i + 1)
         IN
         IF ~truthy(v.value)
         THEN [result |-> rest.result,
               msgs |-> v.msgs
                        \o <<InfoMessage(<<"The minimum requirements for installation were not met by device: ", "path">>)>>
                        \o rest.msgs]
         ELSE IF ~truthy(p.value)
         THEN [result |-> rest.result,
               msgs |-> v.msgs \o p.msgs
                        \o <<InfoMessage(<<"Formatting a device that already contains partitions will result in irreversible data loss!">>)>>
                        \o rest.msgs]
         ELSE [result |-> i, msgs |-> v.msgs \o p.msgs]

\* get_device(min_size), lines 296-321.
get_device(devices) ==
    IF devices = <<>>
    THEN [result |-> 0, msgs |-> <<ErrorMessage(<<"Failed to list devices">>)>>]
    ELSE get_device_loop(devices, 1)

\* get_device of auto_arch.py, lines 177-197.  Its is_device_valid returns a
\* pair (valid, error), which is true whatever it holds, so that only the
\* partition test skips a device; nothing is logged.
RECURSIVE arch_get_device_loop(_, _)
arch_get_device_loop(devices, i) ==
    IF i > Len(devices) THEN 0
    ELSE IF ~truthy(device_lacks_partitions(devices[i]).value)
    THEN arch_get_device_loop(devices, i + 1)
    ELSE i

arch_get_device(devices) ==
    IF devices = <<>> THEN 0 ELSE arch_get_device_loop(devices, 1)

GetDeviceCall ==
    /\ ui.mode = "none"
    /\ calls = 0
    /\ \E devices \in DeviceLists :
         LET r == get_device(devices) IN
         /\ PutAll(r.msgs)
         /\ last' = [op |-> "get_device", devices |-> devices,
                     result |-> r.result, asked |-> FALSE, answer |-> "-"]
    /\ calls' = 1
    /\ UNCHANGED <<heap, level, logFile, file, stdout, surface, popped, procVars, ui>>

ArchGetDeviceCall ==
    /\ ui.mode = "none"
    /\ calls = 0
    /\ \E devices \in DeviceLists :
         last' = [op |-> "arch_get_device", devices |-> devices,
                  result |-> arch_get_device(devices), asked |-> FALSE,
                  answer |-> "-"]
    /\ calls' = 1
    /\ UNCHANGED <<heap, loggerVars, procVars, ui>>

\* CursesApp.get_device, lines 726-741 and 769-774: lsblk lists the devices
\* and the list is put up with interactive_device_validator.
CursesGetDeviceCall ==
    /\ ui.mode = "none"
    /\ calls = 0
    /\ \E devices \in DeviceLists :
         IF devices = <<>>
         THEN /\ PutAll(<<ErrorMessage(<<"Not enough devices listed">>)>>)
              /\ ui' = [mode |-> "device", devices |-> devices, at |-> "returned",
                        chosen |-> 0]
              /\ last' = [op |-> "CursesApp.get_device", devices |-> devices,
                          result |-> 0, asked |-> FALSE, answer |-> "-"]
         ELSE /\ ui' = [mode |-> "device", devices |-> devices, at |-> "list",
                        chosen |-> 0]
              /\ last' = [op |-> "device_list"]
              /\ UNCHANGED <<log, pushed>>
    /\ calls' = 1
    /\ UNCHANGED <<heap, level, logFile, file, stdout, surface, popped, procVars>>

\* A key that ends the device list: q, or the confirm key on the i-th device,
\* on which select asks interactive_device_validator (lines 742-767).  A
\* refusal ends the selection with None (lines 683-686) and get_device logs
\* it (lines 775-777).  A device that does not pass device_lacks_partitions
\* brings up the two-item dialog.
DeviceListKey ==
    /\ ui.mode = "device"
    /\ ui.at = "list"
    /\ \E i \in 0..Len(ui.devices) :
         LET failed == <<ErrorMessage(<<"Failed to select a device">>)>>
             done(result, msgs) ==
                 /\ PutAll(msgs)
                 /\ ui' = [ui EXCEPT !.at = "returned", !.chosen = i]
                 /\ last' = [op |-> "CursesApp.get_device", devices |-> ui.devices,
                             result |-> result, asked |-> FALSE, answer |-> "-"]
         IN
         IF i = 0 THEN done(0, failed)
         ELSE LET v == is_device_valid(ui.devices[i])
                  p == device_lacks_partitions(ui.devices[i])
              IN
              IF ~truthy(v.value)
              THEN done(0, v.msgs
                           \o <<ErrorMessage(<<"The selected device does not meet the minimum requirements for installation">>)>>
                           \o failed)
              ELSE IF ~truthy(p.value)
              THEN /\ PutAll(v.msgs \o p.msgs)
                   /\ ui' = [ui EXCEPT !.at = "dialog", !.chosen = i]
                   /\ last' = [op |-> "device_dialog"]
              ELSE done(i, v.msgs \o p.msgs)
    /\ UNCHANGED <<heap, level, logFile, file, stdout, surface, popped, calls, procVars>>

\* The key that ends the dialog "The selected device already contains
\* partitions!": q (select returns None), or the confirm key on item 0 ("No.
\* Select a different device.") or item 1 ("Yes. Permanently delete all data
\* on ...").  The validator returns selection_index == 1 (line 765).
\* select's return value is written as text.
DialogAnswers == {"None", "0", "1"}

DeviceDialogKey ==
    /\ ui.mode = "device"
    /\ ui.at = "dialog"
    /\ \E answer \in DialogAnswers :
         LET permitted == answer = "1" IN
         /\ PutAll(IF permitted THEN <<>>
                   ELSE <<ErrorMessage(<<"Failed to select a device">>)>>)
         /\ ui' = [ui EXCEPT !.at = "returned"]
         /\ last' = [op |-> "CursesApp.get_device", devices |-> ui.devices,
                     result |-> IF permitted THEN ui.chosen ELSE 0,
                     asked |-> TRUE, answer |-> answer]
    /\ UNCHANGED <<heap, level, logFile, file, stdout, surface, popped, calls, procVars>>

NextDevice ==
    \/ GetDeviceCall \/ ArchGetDeviceCall \/ CursesGetDeviceCall
    \/ DeviceListKey \/ DeviceDialogKey

SpecDevice == Init /\ [][NextDevice]_vars

\* The device a selection returned has partitions, or its partitions could
\* not be listed.
ReturnedOccupied ==
    /\ last.op \in {"get_device", "arch_get_device", "CursesApp.get_device"}
    /\ last.result # 0
    /\ last.devices[last.result].parts # "none"

\* C21: a device that has partitions, or whose partitions could not be
\* listed, is never selected without explicit permission: the automatic
\* get_device never returns one, and CursesApp.get_device returns one only
\* after the two-item dialog was shown for it and its second entry ("Yes.
\* Permanently delete ...") was confirmed.
C21_NoOccupiedDeviceWithoutPermission ==
    ReturnedOccupied =>
        /\ last.op = "CursesApp.get_device"
        /\ last.asked
        /\ last.answer = "1"
        /\ last.result = ui.chosen

\* The operator picked a device with partitions and confirmed the second
\* entry of the dialog.
C21_Witness ==
    /\ ReturnedOccupied
    /\ last.devices[last.result].parts = "some"
    /\ last.answer = "1"

\* ==========================================================================
\* Claims on the acquisition of the terminal session
\* ==========================================================================

\* The constructor has just run on a terminal below the minimum size.
AcquiredTooSmall ==
    /\ last.op = "CursesApp"
    /\ (last.LINES < min_lines \/ last.COLS < min_cols)

\* C22: on a terminal of fewer than 12 rows or fewer than 44 columns the
\* acquisition fails cleanly: cleanup has run (clean is true, the terminal is
\* restored), exactly one error has been logged, no border or content window
\* exists, good is false, and interactive_conf has returned its failure; a
\* session without windows never reaches a key read.
C22_SmallTerminalFailsCleanly ==
    /\ AcquiredTooSmall =>
          /\ app.clean /\ ~app.good /\ ~app.windows
          /\ term = "cooked"
          /\ restores = 1
          /\ Len(last.msgs) = 1
          /\ last.msgs[1].level = LevelError
          /\ Len(pushed) >= 1
          /\ pushed[Len(pushed)].raw = last.msgs[1].raw
          /\ log # <<>> /\ log[Len(log)] = pushed[Len(pushed)]
          /\ pc = "conf_none"
    /\ (app.exists /\ ~app.windows) =>
          /\ pc \notin {"select", "select_key", "input_key"}
          /\ last.op \notin {"show_all_as_curses", "key_redraw", "key_cancel",
                             "key_edit", "key_device", "key_restart",
                             "key_begin", "set"}

\* The constructor has run on a terminal of 11 rows and 80 columns.
C22_Witness ==
    /\ AcquiredTooSmall
    /\ last.LINES = 11 /\ last.COLS = 80
    /\ pc = "conf_none"

\* ==========================================================================
\* SpecSession: the constructor of CursesApp on every terminal size
\* ==========================================================================

\* The largest terminal tried; the smallest is two below the minimum.
MaxTermLines == 26
MaxTermCols  == 70

SessionLines == (min_lines - 2)..MaxTermLines
SessionCols  == (min_cols - 2)..MaxTermCols

\* app = CursesApp() on a terminal of LINES x COLS (lines 534-606).
CursesAppCall ==
    /\ ~app.exists
    /\ ui.mode = "none"
    /\ \E LINES \in SessionLines : \E COLS \in SessionCols :
         LET made == CursesApp_init(LINES, COLS)
             a == [exists |-> TRUE, good |-> FALSE, clean |-> FALSE,
                   windows |-> made.windows]
             c == IF made.cleanup THEN app_cleanup(a, "curses", restores)
                  ELSE [app |-> a, term |-> "curses", restores |-> restores]
         IN
         /\ app' = [c.app EXCEPT !.good = made.good]
         /\ term' = c.term
         /\ restores' = c.restores
         /\ PutAll(made.msgs)
         /\ last' = [op |-> "CursesApp()", LINES |-> LINES, COLS |-> COLS,
                     made |-> made]
    /\ handlers' = Append(handlers, "CursesApp.cleanup")
    /\ UNCHANGED <<heap, level, logFile, file, stdout, surface, popped, calls,
                   pc, status, ui>>

NextSession == CursesAppCall

SpecSession == Init /\ [][NextSession]_vars

\* Rectangle inner lies strictly inside rectangle outer.
StrictlyInside(inner, outer) ==
    /\ inner.y > outer.y
    /\ inner.x > outer.x
    /\ inner.y + inner.lines < outer.y + outer.lines
    /\ inner.x + inner.cols < outer.x + outer.cols

\* C23: on a terminal of LINES >= 12 and COLS >= 44 the outer rectangle has
\* max(LINES - 6, 12) lines and max(COLS - 20, 44) columns, lies entirely
\* inside the terminal (origin >= 0, origin + size <= terminal size), and the
\* content area of (lines - 2) x (cols - 4) lies strictly inside it.
C23_WindowGeometry ==
    (last.op = "CursesApp()" /\ last.LINES >= 12 /\ last.COLS >= 44) =>
        LET b == last.made.border
            w == last.made.win
        IN
        /\ last.made.windows
        /\ b.lines = max(last.LINES - 6, 12)
        /\ b.cols = max(last.COLS - 20, 44)
        /\ b.y >= 0 /\ b.x >= 0
        /\ b.y + b.lines <= last.LINES
        /\ b.x + b.cols <= last.COLS
        /\ w.lines = b.lines - 2
        /\ w.cols = b.cols - 4
        /\ w.lines > 0 /\ w.cols > 0
        /\ StrictlyInside(w, b)

\* A terminal of 13 x 65: the lines are held at the minimum with half a line
\* of margin, the columns are just above it.
C23_Witness ==
    /\ last.op = "CursesApp()"
    /\ last.LINES = 13 /\ last.COLS = 65
    /\ last.made.border = [lines |-> 12, cols |-> 45, y |-> 0, x |-> 10]
    /\ last.made.win = [lines |-> 10, cols |-> 41, y |-> 1, x |-> 12]

\* ==========================================================================
\* Claims on the two flushes compared
\* ==========================================================================

\* The Logger as it was when the drain recorded in last began, with nothing
\* yet on either output.
BeforeDrain ==
    [log |-> last.before, level |-> last.level, logFile |-> last.fileWas,
     file |-> SubSeq(file, 1, Len(file) - Len(last.filed)),
     stdout |-> <<>>, surface |-> <<>>,
     popped |-> SubSeq(popped, 1, Len(popped) - Len(last.taken)),
     raised |-> ""]

\* The body of the message an output entry carries: the window is handed
\* raw + "\n" with the level as its color, plain output the ANSI rendering.
ShownAs(m)   == [text |-> m.raw \o <<"LF">>, color |-> m.level, id |-> m.id]
PrintedAs(m) == [text |-> as_ansi(m.raw, m.level), id |-> m.id]

\* C24: show_all_as_curses follows the same traversal and threshold rule as
\* show_all_as_ansi.  Started from the same queue, threshold and log file,
\* with a writer that takes every message as print does, the two leave the
\* same queue (they remove the same messages), the same log file and have
\* presented the same messages in the same order, each in its own form.
C24_FlushesAgree ==
    /\ (last.op = "show_all_as_curses" /\ last.raised # "curses.error") =>
          LET A == show_all_as_ansi(BeforeDrain, FALSE) IN
          /\ A.log = log
          /\ A.popped = popped
          /\ A.file = file
          /\ A.logFile = logFile
          /\ A.raised = last.raised
          /\ Ids(A.stdout) = Ids(last.shown)
          /\ \A i \in 1..Len(last.shown) :
                \E j \in 1..Len(last.taken) :
                    /\ last.shown[i] = ShownAs(last.taken[j])
                    /\ [text |-> A.stdout[i].text, id |-> A.stdout[i].id]
                          = PrintedAs(last.taken[j])
    /\ last.op = "show_all_as_ansi" =>
          LET C == show_all_as_curses(BeforeDrain, Len(last.before)) IN
          /\ C.log = log
          /\ C.popped = popped
          /\ C.file = file
          /\ C.logFile = logFile
          /\ C.raised = last.raised
          /\ Ids(C.surface) = Ids(last.printed)

\* A flush to the window of two queued messages, the first within the
\* threshold and the second above it, with the log file open: both are taken
\* and filed and the first alone is shown.
C24_Witness ==
    /\ last.op = "show_all_as_curses"
    /\ last.raised = ""
    /\ last.fileWas = "open"
    /\ Len(last.before) = 2
    /\ last.before[1].level <= last.level
    /\ last.before[2].level > last.level
    /\ Len(last.taken) = 2
    /\ Len(last.filed) = 2
    /\ Len(last.shown) = 1

\* ==========================================================================
\* Claims on the return of interactive_conf
\* ==========================================================================

\* C25: on every path by which interactive_conf returns, with the Profile or
\* with None after the top-level list was cancelled, CursesApp.cleanup has
\* run before control is back in main; so the flushes to plain output that
\* follow (of the success message, and of show_errors_and_quit) write to a
\* restored terminal.
C25_CleanupBeforeReturn ==
    /\ (app.exists /\ pc \in {"conf_none", "check_device", "install", "return"})
          => (app.clean /\ term = "cooked")
    /\ last.op \in {"show_errors_and_quit", "main_install"} =>
          \A i \in 1..Len(stdout) : ~stdout[i].active

\* ==========================================================================
\* Claims on the independence of Profile instances
\* ==========================================================================

\* C26: Profile instances do not share field state.  Whatever load_profile or
\* dict_to_profile has set on the Profile it built, a Profile() constructed
\* afterwards holds the defaults in every field; and when load_profile fails
\* after dict_to_profile applied some entries, the default Profile that main
\* made before the call and keeps using holds what it held.
C26_ProfilesAreIndependent ==
    /\ last.op \in {"load_profile", "dict_to_profile"} =>
          \A f \in FieldNames : Get(heap, NewProfile, f) = Defaults[f]
    /\ (last.op = "load_profile" /\ last.result = "None") =>
          \A f \in FieldNames : Get(heap, NewProfile, f) = Get(last.before, NewProfile, f)

\* ==========================================================================
\* Claims on the device and restart fields
\* ==========================================================================

\* C27: a device sub-interaction that ends without an accepted device (the
\* list cancelled, the device refused, lsblk failed) leaves the device field
\* at the value it had; a device selected before is never reset to unset.
C27_FailedSelectionKeepsDevice ==
    (last.op = "key_device" /\ last.outcome = "none") =>
        heap["device"] = last.before

\* C28: after a successful installation main runs the restart countdown and
\* issues the restart if and only if the restart field holds true.
C28_RestartIffFieldTrue ==
    (last.op = "main_install" /\ last.done) =>
        /\ last.countdown <=> (heap["restart"] = PyBool(TRUE))
        /\ last.shutdown <=> (heap["restart"] = PyBool(TRUE))

\* ==========================================================================
\* SpecArch: auto_arch.py from its automatic device selection to the return
\* of interactive_conf
\*
\* ui holds the program's position (at), the device list lsblk reports,
\* profile["device"] (profile_device) and the module-level variable device;
\* a device is its index in the list and 0 is None.
\* ==========================================================================

\* Keys answered in the top-level list of auto_arch.py's interactive_conf.
MaxArchKeys == 2

\* auto_arch.py, lines 557-612: the default profile has "device": None and
\* get_profile only rebinds its own parameter, so profile["device"] is None at
\* line 611 and the automatic selection is assigned to the variable device.
ArchMain ==
    /\ ui.mode = "none"
    /\ calls = 0
    /\ \E devices \in DeviceLists :
         ui' = [mode |-> "arch", at |-> "main", devices |-> devices,
                profile_device |-> 0, device |-> arch_get_device(devices)]
    /\ last' = [op |-> "arch_main"]
    /\ UNCHANGED <<heap, loggerVars, calls, procVars>>

\* Lines 614-619, with --non-interactive: profile["device"] is tested, the
\* error is printed and the process quits.
ArchNonInteractive ==
    /\ ui.mode = "arch"
    /\ ui.at = "main"
    /\ ui' = [ui EXCEPT !.at = IF ui.profile_device = 0 THEN "quit" ELSE "install"]
    /\ last' = [op |-> "arch_non_interactive"]
    /\ UNCHANGED <<heap, loggerVars, calls, procVars>>

\* interactive_conf, lines 448-452: app = CursesApp(); with good false the
\* function returns False.
ArchCursesApp ==
    /\ ui.mode = "arch"
    /\ ui.at = "main"
    /\ \E LINES \in TermLines : \E COLS \in TermCols :
         LET made == CursesApp_init(LINES, COLS)
             a == [exists |-> TRUE, good |-> FALSE, clean |-> FALSE,
                   windows |-> made.windows]
             c == IF made.cleanup THEN app_cleanup(a, "curses", restores)
                  ELSE [app |-> a, term |-> "curses", restores |-> restores]
         IN
         /\ app' = [c.app EXCEPT !.good = made.good]
         /\ term' = c.term
         /\ restores' = c.restores
         /\ ui' = [ui EXCEPT !.at = IF made.good THEN "select" ELSE "returned"]
         /\ last' = IF made.good THEN [op |-> "arch_CursesApp"]
                    ELSE [op |-> "arch_interactive_conf", result |-> FALSE,
                          begin |-> FALSE, asked |-> FALSE]
    /\ handlers' = Append(handlers, "CursesApp.cleanup")
    /\ UNCHANGED <<heap, loggerVars, calls, pc, status>>

\* What CursesApp.get_device of auto_arch.py (lines 383-445) can return on
\* the listed devices: None (lsblk failed, the list was cancelled), or a
\* device its validator accepted, one that is_device_valid passes and that
\* lacks partitions or was permitted in the dialog.
ArchSelectable(devices) ==
    {0} \cup {i \in 1..Len(devices) : devices[i].valid}

\* `if device:` at line 482 reads the module-level variable device.
arch_may_leave(u) == u.device # 0

\* interactive_conf, lines 454-474 and 476-477: q on the top-level list
\* returns False; the device entry assigns what get_device returns.
ArchSelectKey ==
    /\ ui.mode = "arch"
    /\ ui.at = "select"
    /\ calls < MaxArchKeys
    /\ \/ /\ ui' = [ui EXCEPT !.at = "returned"]
          /\ last' = [op |-> "arch_interactive_conf", result |-> FALSE,
                      begin |-> FALSE, asked |-> FALSE]
       \/ \E selected \in ArchSelectable(ui.devices) :
            /\ ui' = [ui EXCEPT !.profile_device = selected]
            /\ last' = [op |-> "arch_key_device", selected |-> selected]
    /\ calls' = calls + 1
    /\ UNCHANGED <<heap, loggerVars, procVars>>

\* interactive_conf, lines 478-491: "Begin Installation".  With
\* profile["device"] set the loop ends; without it get_device runs, its
\* result is assigned and the loop ends on `if device:`.  After the loop the
\* session is cleaned up and True is returned.
ArchSelectBegin ==
    /\ ui.mode = "arch"
    /\ ui.at = "select"
    /\ calls < MaxArchKeys
    /\ calls' = calls + 1
    /\ LET c == app_cleanup(app, term, restores)
           leave(u, asked) ==
               /\ ui' = [u EXCEPT !.at = "returned"]
               /\ app' = c.app
               /\ term' = c.term
               /\ restores' = c.restores
               /\ last' = [op |-> "arch_interactive_conf", result |-> TRUE,
                           begin |-> TRUE, asked |-> asked]
       IN
       IF ui.profile_device # 0
       THEN leave(ui, FALSE)
       ELSE \E selected \in ArchSelectable(ui.devices) :
              LET u == [ui EXCEPT !.profile_device = selected] IN
              IF arch_may_leave(u)
              THEN leave(u, TRUE)
              ELSE /\ ui' = u
                   /\ last' = [op |-> "arch_key_begin", selected |-> selected]
                   /\ UNCHANGED <<app, term, restores>>
    /\ UNCHANGED <<heap, loggerVars, pc, handlers, status>>

NextArch ==
    \/ ArchMain \/ ArchNonInteractive \/ ArchCursesApp
    \/ ArchSelectKey \/ ArchSelectBegin

SpecArch == Init /\ [][NextArch]_vars

\* C29: in auto_arch.py interactive_conf returns True only in a state where
\* profile["device"] is set; "Begin Installation" with no device runs the
\* device selection again and leaves the loop only if that yielded a device.
C29_ArchReturnsTrueWithDevice ==
    (last.op = "arch_interactive_conf" /\ last.result) => ui.profile_device # 0

\* C30: in text-input mode a key that is neither a printable single
\* character, KEY_BACKSPACE nor confirm leaves the buffer unchanged:
\* non-printable single-character keys (tab, escape, DEL) and the names of
\* special keys are never appended.
C30_OtherKeysLeaveBuffer ==
    [][(/\ ui.mode = "input"
        /\ ui'.mode = "input"
        /\ Len(ui'.keys) = Len(ui.keys) + 1
        /\ LET key == ui'.keys[Len(ui'.keys)] IN
           /\ key \notin PrintableKeys
           /\ key # "KEY_BACKSPACE"
           /\ ~IsConfirmKey(key))
       => ui'.response = ui.response]_vars

====
